---- MODULE Spec2Model ----
(***************************************************************************)
(* Registration and payment confirmation backend (server.js).              *)
(*                                                                         *)
(* server.js holds two revisions of the same service:                      *)
(*   - the in-memory revision (lines 1-405): registrations is a Map keyed  *)
(*     by referenceId, confirmedPayments a Set;                            *)
(*   - the Firebase revision (lines 406-1317): registrations/{uid},        *)
(*     users/{uid}/registration and confirmedPayments/{uid} in the         *)
(*     Realtime Database, every route behind a bearer token.               *)
(* The variable rev fixes which revision a behaviour runs.  A handler is   *)
(* cut into steps at its awaits: the code between two awaits runs without  *)
(* interleaving (single-threaded event loop), the steps of different       *)
(* requests interleave freely.                                             *)
(*                                                                         *)
(* Idealisations: HMAC-SHA256 is injective in (key, message); the          *)
(* referenceId drawn from crypto.randomBytes and the order id issued by    *)
(* the gateway are fresh (DrawSpec runs the in-memory revision with the    *)
(* draw left free).  Timestamps are not represented.  The requests of the  *)
(* service carry fullName, email and phone as strings; CompareSpec follows *)
(* the signature comparison on hex strings and MailerSpec follows one call *)
(* of sendConfirmationEmails on any stored phone value, apart from the     *)
(* service.  The Firebase Auth accounts and the users/{uid} profile nodes  *)
(* are followed by AdminSpec, which runs the admin routes and              *)
(* /api/setup-admin; the payment routes neither read nor write them.       *)
(*                                                                         *)
(* Exploration: a behaviour accepts at most MaxOps (MaxFbOps) requests,    *)
(* failed external calls counted with them; at most MaxInflight handlers   *)
(* are suspended at a time; a request that is answered at once without     *)
(* any effect, and a status query, arrive while no handler is suspended.   *)
(***************************************************************************)
EXTENDS Naturals, Integers, Sequences, FiniteSets, Bags, TLC

VARIABLES
    rev,                  \* "mem" | "fb": which revision of server.js runs
    webhookSecret,        \* process.env.RAZORPAY_WEBHOOK_SECRET (NULL when unset)
    razorpay,             \* fb: the Razorpay client, NULL when new Razorpay threw
    registrations,        \* mem: Map referenceId -> registration record
    confirmedPayments,    \* mem: Set of referenceIds
    registrationsRef,     \* fb: registrations/{uid}
    usersRegistrationRef, \* fb: users/{uid}/registration
    confirmedPaymentsRef, \* fb: confirmedPayments/{uid}
    issuedOrders,         \* order ids the gateway has issued so far
    mailLog,              \* every transporter.sendMail call, in call order
    inflight,             \* bag of the handlers suspended at an await
    ops,                  \* requests accepted so far (past validation), queries apart
    failures,             \* external calls (gateway, mail, database) that failed
    lastResp,             \* the most recent HTTP response
    compared,             \* two signature comparisons against one digest, with their work
    mailer,               \* one call of sendConfirmationEmails, followed through its steps
    authUsers,            \* fb: Firebase Auth accounts, uid -> custom claim admin, disabled
    usersProfileRef       \* fb: users/{uid} profile fields (fullName, email, ...)

vars == <<rev, webhookSecret, razorpay, registrations, confirmedPayments, registrationsRef,
          usersRegistrationRef, confirmedPaymentsRef, issuedOrders, mailLog,
          inflight, ops, failures, lastResp, compared, mailer,
          authUsers, usersProfileRef>>

stores == <<registrations, confirmedPayments, registrationsRef,
            usersRegistrationRef, confirmedPaymentsRef>>

(***************************************************************************)
(* Bounds                                                                  *)
(***************************************************************************)
MaxOps      == 4         \* requests accepted plus calls failed, in-memory revision
MaxFbOps    == 3         \* requests accepted plus calls failed, Firebase revision
MaxInflight == 2         \* handlers suspended at the same time
MaxFailures == 1         \* external calls that fail in one behaviour

RefIds     == {"r1", "r2"}
Uids       == {"u1", "u2"}
OrderIds   == {"o1", "o2"}
PaymentIds == {"p1", "p2"}
Rank       == [r1 |-> 1, r2 |-> 2, u1 |-> 1, u2 |-> 2, o1 |-> 1, o2 |-> 2]

NULL == "null"           \* JavaScript undefined / absent field
EMPTY == ""              \* missing or empty request field (falsy)

EmptyMap == [k \in {} |-> NULL]
Put(map, key, value) ==
    [k \in DOMAIN map \cup {key} |-> IF k = key THEN value ELSE map[k]]
Least(S) == CHOOSE x \in S : \A y \in S : Rank[x] <= Rank[y]

(***************************************************************************)
(* Secrets and signatures                                                  *)
(***************************************************************************)
RAZORPAY_KEY_SECRET == "key_secret"
WEBHOOK_SECRET      == "whsec"
FORGED_KEY          == "attacker"

NoSignature == [alg |-> "none", key |-> EMPTY, msg |-> <<>>]

\* crypto.createHmac('sha256', key).update(msg).digest('hex')
Hmac(key, msg) == [alg |-> "sha256", key |-> key, msg |-> msg]

\* orderId + '|' + paymentId
PaymentMessage(orderId, paymentId) == <<orderId, "|", paymentId>>

\* the signature the gateway hands the client for a payment on an order
ValidSignature(orderId, paymentId) ==
    Hmac(RAZORPAY_KEY_SECRET, PaymentMessage(orderId, paymentId))

\* a comparison of the signed text that leaves the key out
verifyRazorpaySignature_AnyKey(orderId, paymentId, signature) ==
    signature.msg = PaymentMessage(orderId, paymentId)

verifyRazorpaySignature(orderId, paymentId, signature) ==
    Hmac(RAZORPAY_KEY_SECRET, PaymentMessage(orderId, paymentId)) = signature

(***************************************************************************)
(* The comparison of the hex digest with the supplied signature.  Both are *)
(* strings; === and !== compare their lengths and then their characters    *)
(* from the left, stopping at the first that differs.                      *)
(***************************************************************************)
DigestLen == 3
HexChars  == {"0", "f"}

HexStrings(n) == [1..n -> HexChars]

\* the first position where two strings of one length differ, or that length plus 1
FirstDifference(a, b) ==
    LET diff == {i \in 1..Len(a) : a[i] # b[i]}
    IN IF diff = {} THEN Len(a) + 1
       ELSE CHOOSE i \in diff : \A j \in diff : i <= j

\* generatedSignature === signature: the result, and the characters looked at
StrictEquals(generated, signature) ==
    [result |-> generated = signature,
     work   |-> IF Len(generated) # Len(signature) THEN 0
                ELSE IF generated = signature THEN Len(generated)
                ELSE FirstDifference(generated, signature)]

NotCompared == [result |-> FALSE, work |-> -1]

NoComparison == [generated |-> <<>>, first |-> <<>>, second |-> <<>>,
                 done1 |-> NotCompared, done2 |-> NotCompared]

(***************************************************************************)
(* sendConfirmationEmails(userData, referenceId, transactionId), followed  *)
(* from the call to the return: the two option objects are built before    *)
(* the try block, the two sendMail calls are awaited inside it.            *)
(***************************************************************************)
\* userData.phone as stored: a string, a JSON number, or no such field
PhoneValues == {[type |-> "string", text |-> "+910000000000"],
                [type |-> "string", text |-> ""],
                [type |-> "number", text |-> "9876543210"],
                [type |-> "undefined", text |-> ""]}

\* userData.phone.replace(/\D/g, '') in the operator mail: a TypeError unless
\* phone is a string
PhoneReplaceThrows(phone) == phone.type # "string"

NoMailer == [userData |-> [fullName |-> NULL, email |-> NULL,
                           phone |-> [type |-> "undefined", text |-> ""]],
             ok1 |-> FALSE, ok2 |-> FALSE, pc |-> "idle",
             attempts |-> <<>>, outcome |-> "none"]

(***************************************************************************)
(* Webhook bodies: the bytes on the wire carry a formatting that parsing   *)
(* drops and JSON.stringify does not restore.                              *)
(***************************************************************************)
Events == {"payment.captured", "payment.authorized", "payment.failed", "order.paid"}

\* shape "ok": {event, payload:{payment:{entity:{order_id,id}}}}
\* shape "nopayload": {event} only; shape "notjson": not a JSON text
RawBody(fmt, shape, event, order_id, id) ==
    [fmt |-> fmt, shape |-> shape, event |-> event, order_id |-> order_id, id |-> id]

RawBodies ==
    {RawBody("compact", "ok", "payment.captured", o, p) : o \in OrderIds, p \in PaymentIds}
    \cup {RawBody("compact", "ok", "payment.failed", o, "p1") : o \in OrderIds}
    \cup {RawBody("spaced", "ok", "payment.captured", "o1", "p1"),
          RawBody("compact", "ok", "payment.authorized", "o1", "p1"),
          RawBody("compact", "ok", "order.paid", "o1", "p1"),
          RawBody("compact", "nopayload", "payment.captured", NULL, NULL),
          RawBody("compact", "notjson", NULL, NULL, NULL)}

\* JSON.parse: the parsed object has no formatting
JsonParse(raw) == [shape |-> raw.shape, event |-> raw.event,
                   order_id |-> raw.order_id, id |-> raw.id]

\* JSON.stringify: always the compact serialisation
JsonStringify(obj) == [fmt |-> "compact", shape |-> obj.shape, event |-> obj.event,
                       order_id |-> obj.order_id, id |-> obj.id]

(***************************************************************************)
(* Responses                                                               *)
(***************************************************************************)
\* the JSON body of a response: success flag, error text, status text, payload id
Body(success, error, status, data) ==
    [success |-> success, error |-> error, status |-> status, data |-> data]

\* lastResp is what the step just taken did at the HTTP interface: the request it
\* took in (arrival) and the answer it gave (status 0 when it gave none); NoResp
\* when it did neither.  final marks an answer whose request changed nothing: the state
\* it leaves is, on every other variable, the state before the request, so the
\* behaviours that go on after it are those that go on without it, and the model
\* explores the latter only: no step is taken from a state with a final answer.
\* Such a request is modelled arriving while no handler is suspended.
NoBody == Body(NULL, NULL, NULL, NULL)

NoResp == [kind |-> "none", arrival |-> FALSE, req |-> EmptyMap, status |-> 0,
           body |-> NoBody, final |-> FALSE]

\* req is the request when the step took one in, the handler that answers otherwise
Resp(kind, arrival, req, status, body, final) ==
    [kind |-> kind, arrival |-> arrival, req |-> req, status |-> status,
     body |-> body, final |-> final]

\* a handler suspended at an await: its route, the await it is at, its locals
NoData == [fullName |-> NULL, email |-> NULL, phone |-> NULL]

Handler(kind, pc, id, orderId, transactionId, ok) ==
    [kind |-> kind, pc |-> pc, id |-> id, orderId |-> orderId,
     transactionId |-> transactionId, ok |-> ok, data |-> NoData]

Suspended == BagToSet(inflight)

\* the outcome of an external call: it succeeds, or it fails
Budget == IF rev = "mem" THEN MaxOps ELSE MaxFbOps

Outcome(ok) ==
    IF ok THEN UNCHANGED failures
    ELSE /\ failures < MaxFailures
         /\ ops + failures < Budget
         /\ failures' = failures + 1

Live == ~lastResp.final

\* a request is answered before its handler awaits anything
Reject(kind, req, status, body) ==
    /\ Live
    /\ inflight = EmptyBag
    /\ lastResp' = Resp(kind, TRUE, req, status, body, TRUE)
    /\ UNCHANGED <<inflight, ops>>

\* a status query, which writes nothing, is not counted in ops; like the requests
\* answered at once it is modelled arriving while no handler is suspended
Cost(h) == IF h.kind = "check-payment" THEN 0 ELSE 1

\* a request passes validation and its handler reaches its first await
Suspend(req, h) ==
    /\ Live
    /\ ops + failures + Cost(h) <= Budget
    /\ BagCardinality(inflight) < MaxInflight
    /\ ops' = ops + Cost(h)
    /\ inflight' = inflight (+) SetToBag({h})
    /\ lastResp' = Resp(h.kind, TRUE, req, 0, NoBody, FALSE)

\* a suspended handler runs to its next await
Resume(h, g) ==
    /\ Live
    /\ inflight' = (inflight (-) SetToBag({h})) (+) SetToBag({g})
    /\ lastResp' = NoResp
    /\ UNCHANGED ops

\* a suspended handler answers and ends
Finish(h, status, body) ==
    /\ Live
    /\ lastResp' = Resp(h.kind, FALSE, h, status, body, FALSE)
    /\ inflight' = inflight (-) SetToBag({h})
    /\ UNCHANGED ops

(***************************************************************************)
(* Mail transport                                                          *)
(***************************************************************************)
\* one transporter.sendMail call: who it is for, the route that called
\* sendConfirmationEmails, and whether it succeeds
Mail(to, by, referenceId, transactionId, ok) ==
    [to |-> to, by |-> by, referenceId |-> referenceId,
     transactionId |-> transactionId, ok |-> ok]

\* calls of sendConfirmationEmails so far: each starts with the participant mail
Dispatches(referenceId) ==
    Cardinality({k \in 1..Len(mailLog) :
                   /\ mailLog[k].to = "participant"
                   /\ mailLog[k].referenceId = referenceId})

(***************************************************************************)
(* In-memory revision                                                      *)
(***************************************************************************)
memVars == <<registrations, confirmedPayments>>
fbVars  == <<registrationsRef, usersRegistrationRef, confirmedPaymentsRef>>
envVars == <<rev, webhookSecret, razorpay>>
adminVars == <<authUsers, usersProfileRef>>
quiet   == <<issuedOrders, mailLog, failures>>

RegistrationInputs ==
    {[fullName |-> "A", email |-> "a@x.com", phone |-> "+910000000000"],
     [fullName |-> EMPTY, email |-> "a@x.com", phone |-> "+910000000000"],
     [fullName |-> "A", email |-> EMPTY, phone |-> "+910000000000"],
     [fullName |-> "A", email |-> "a@x.com", phone |-> EMPTY]}

\* the record registrations.set stores at registration time
NewRegistration(req) ==
    [fullName |-> req.fullName, email |-> req.email, phone |-> req.phone,
     paymentConfirmed |-> FALSE, orderId |-> NULL, transactionId |-> NULL]

\* POST /api/register without the test of the three fields
RegisterDrawing_NoValidation(draws) ==
    /\ rev = "mem"
    /\ \E req \in RegistrationInputs :
         /\ Live
         /\ ops + failures < Budget
         /\ \E referenceId \in draws :
               /\ registrations' = Put(registrations, referenceId, NewRegistration(req))
               /\ lastResp' = Resp("register", TRUE, req, 200,
                                   Body("true", NULL, NULL, referenceId), FALSE)
         /\ ops' = ops + 1
         /\ UNCHANGED inflight
    /\ UNCHANGED <<envVars, compared, mailer, adminVars, confirmedPayments, fbVars, quiet>>

\* POST /api/register, with the value of crypto.randomBytes(6) drawn from
\* `draws'.  The handler stores under the drawn id without looking whether
\* the map already holds it.
RegisterDrawing(draws) ==
    /\ rev = "mem"
    /\ \E req \in RegistrationInputs :
         IF req.fullName = EMPTY \/ req.email = EMPTY \/ req.phone = EMPTY
         THEN /\ Reject("register", req, 400,
                        Body(NULL, "All fields are required", NULL, NULL))
              /\ UNCHANGED registrations
         ELSE /\ Live
              /\ ops + failures < Budget
              /\ \E referenceId \in draws :
                    /\ registrations' = Put(registrations, referenceId, NewRegistration(req))
                    /\ lastResp' = Resp("register", TRUE, req, 200,
                                        Body("true", NULL, NULL, referenceId), FALSE)
              /\ ops' = ops + 1
              /\ UNCHANGED inflight
    /\ UNCHANGED <<envVars, compared, mailer, adminVars, confirmedPayments, fbVars, quiet>>

\* The draw idealised as fresh: the least id not yet in the map.
FreshDraws ==
    IF RefIds \ DOMAIN registrations = {} THEN {}
    ELSE {Least(RefIds \ DOMAIN registrations)}

Register == RegisterDrawing(FreshDraws)

\* The draw as the code makes it: any value, one in use included.
RegisterAnyId == RegisterDrawing(RefIds)

\* create-payment-order handlers that have not heard from the gateway yet
OrdersInFlight ==
    LET G == {h \in Suspended : h.kind = "create-payment-order" /\ h.orderId = NULL}
    IN BagCardinality([h \in G |-> inflight[h]])

\* the gateway never issues the same order id twice; the model stops asking once
\* its order ids are used up
GatewayHasOrderIds ==
    Cardinality(issuedOrders) + OrdersInFlight < Cardinality(OrderIds)

\* POST /api/create-payment-order, up to the await of axios.post
CreatePaymentOrder ==
    /\ rev = "mem"
    /\ \E referenceId \in RefIds \cup {EMPTY} :
         LET req == [referenceId |-> referenceId]
         IN IF referenceId = EMPTY
            THEN Reject("create-payment-order", req, 400,
                        Body(NULL, "Reference ID is required", NULL, NULL))
            ELSE IF referenceId \notin DOMAIN registrations
            THEN Reject("create-payment-order", req, 404,
                        Body(NULL, "Invalid reference ID", NULL, NULL))
            ELSE /\ GatewayHasOrderIds
                 /\ Suspend(req, Handler("create-payment-order", "gateway", referenceId,
                                    NULL, NULL, TRUE))
    /\ UNCHANGED <<envVars, compared, mailer, adminVars, memVars, fbVars, quiet>>

\* the gateway answers axios.post: an order id, or an error
CreatePaymentOrderGateway(h) ==
    /\ rev = "mem"
    /\ h.kind = "create-payment-order" /\ h.pc = "gateway"
    /\ \E ok \in BOOLEAN :
         /\ Outcome(ok)
         /\ IF ok
            THEN LET orderId == Least(OrderIds \ issuedOrders)
                 IN /\ issuedOrders' = issuedOrders \cup {orderId}
                    /\ registrations' = [registrations EXCEPT ![h.id].orderId = orderId]
                    /\ Finish(h, 200, Body("true", NULL, NULL, orderId))
            ELSE /\ Finish(h, 500,
                           Body(NULL, "Failed to create payment order", NULL, NULL))
                 /\ UNCHANGED <<issuedOrders, registrations>>
    /\ UNCHANGED <<envVars, compared, mailer, adminVars, confirmedPayments, fbVars, mailLog>>

\* a status query that records the registration it finds as confirmed
CheckPayment_Marks ==
    /\ rev = "mem"
    /\ \E referenceId \in RefIds :
         /\ referenceId \in DOMAIN registrations
         /\ Reject("check-payment", [reference_id |-> referenceId], 200,
                   Body("true", NULL, NULL, NULL))
         /\ confirmedPayments' = confirmedPayments \cup {referenceId}
    /\ UNCHANGED <<envVars, compared, mailer, adminVars, registrations, fbVars, quiet>>

\* GET /api/check-payment
CheckPayment ==
    /\ rev = "mem"
    /\ \E referenceId \in RefIds \cup {EMPTY} :
         LET req == [reference_id |-> referenceId]
         IN IF referenceId = EMPTY
            THEN Reject("check-payment", req, 400,
                        Body("false", "Reference ID is required", NULL, NULL))
            ELSE IF referenceId \in confirmedPayments
            THEN Reject("check-payment", req, 200, Body("true", NULL, NULL, NULL))
            ELSE IF referenceId \in DOMAIN registrations
            THEN Reject("check-payment", req, 200, Body("false", NULL, "PENDING", NULL))
            ELSE Reject("check-payment", req, 200, Body("false", NULL, "UNKNOWN", NULL))
    /\ UNCHANGED <<envVars, compared, mailer, adminVars, memVars, fbVars, quiet>>

\* the first transporter.sendMail call of sendConfirmationEmails (participant)
SendParticipantMail(by, referenceId, transactionId, ok) ==
    /\ Outcome(ok)
    /\ mailLog' = Append(mailLog, Mail("participant", by, referenceId, transactionId, ok))

\* a sendConfirmationEmails that leaves the operator mail out
SendOperatorMail_None(by, referenceId, transactionId, ok) ==
    /\ Outcome(ok)
    /\ UNCHANGED mailLog

\* the second transporter.sendMail call of sendConfirmationEmails (operator)
SendOperatorMail(by, referenceId, transactionId, ok) ==
    /\ Outcome(ok)
    /\ mailLog' = Append(mailLog, Mail("operator", by, referenceId, transactionId, ok))

\* what the handler answers once sendConfirmationEmails has returned
AfterEmails(h) ==
    IF h.kind = "confirm-payment"
    THEN Finish(h, 200, Body("true", NULL, NULL, h.id))
    ELSE Finish(h, 200, Body("true", NULL, NULL, NULL))

\* sendConfirmationEmails lets the failure of the participant mail out to the
\* handler, whose catch answers 500
ParticipantMailDone_Throws(h) ==
    /\ h.pc = "mail1"
    /\ IF h.ok
       THEN \E ok \in BOOLEAN :
              /\ SendOperatorMail(h.kind, h.id, h.transactionId, ok)
              /\ Resume(h, [h EXCEPT !.pc = "mail2", !.ok = ok])
       ELSE /\ Finish(h, 500,
                      Body(NULL, "Something went wrong during payment confirmation",
                           NULL, NULL))
            /\ UNCHANGED <<mailLog, failures>>
    /\ UNCHANGED <<envVars, compared, mailer, adminVars, memVars, fbVars, issuedOrders>>

\* sendConfirmationEmails resumes after the participant mail: on success it sends
\* the operator mail, on failure it returns false and the handler answers
ParticipantMailDone(h) ==
    /\ h.pc = "mail1"
    /\ IF h.ok
       THEN \E ok \in BOOLEAN :
              /\ SendOperatorMail(h.kind, h.id, h.transactionId, ok)
              /\ Resume(h, [h EXCEPT !.pc = "mail2", !.ok = ok])
       ELSE /\ AfterEmails(h)
            /\ UNCHANGED <<mailLog, failures>>
    /\ UNCHANGED <<envVars, compared, mailer, adminVars, memVars, fbVars, issuedOrders>>

\* sendConfirmationEmails resumes after the operator mail and returns
OperatorMailDone(h) ==
    /\ h.pc = "mail2"
    /\ AfterEmails(h)
    /\ UNCHANGED <<envVars, compared, mailer, adminVars, memVars, fbVars, quiet>>

ConfirmRequest(r, o, p, sg) ==
    [referenceId |-> r, razorpay_order_id |-> o, razorpay_payment_id |-> p,
     razorpay_signature |-> sg]

\* the bodies a client posts to confirm-payment: with the gateway's signature of
\* (orderId, paymentId); with a signature made without the secret; with the
\* gateway's signature of another payment; with one field missing
ConfirmInputs(ids) ==
    {ConfirmRequest(r, o, p, ValidSignature(o, p)) :
        r \in ids, o \in OrderIds, p \in PaymentIds}
    \cup {ConfirmRequest(r, "o1", "p1", Hmac(FORGED_KEY, PaymentMessage("o1", "p1"))) :
            r \in ids}
    \cup {ConfirmRequest(r, "o1", "p2", ValidSignature("o1", "p1")) : r \in ids}
    \cup {ConfirmRequest(EMPTY, "o1", "p1", ValidSignature("o1", "p1"))}
    \cup {ConfirmRequest(r, EMPTY, "p1", ValidSignature("o1", "p1")) : r \in ids}
    \cup {ConfirmRequest(r, "o1", EMPTY, ValidSignature("o1", "p1")) : r \in ids}
    \cup {ConfirmRequest(r, "o1", "p1", NoSignature) : r \in ids}

\* a handler that looks the registration up before it verifies the signature
ConfirmPayment_LookupFirst ==
    /\ rev = "mem"
    /\ \E req \in ConfirmInputs(RefIds) :
         /\ req.referenceId \notin DOMAIN registrations
         /\ Reject("confirm-payment", req, 404,
                   Body(NULL, "Invalid reference ID", NULL, NULL))
         /\ UNCHANGED <<memVars, mailLog, failures>>
    /\ UNCHANGED <<envVars, compared, mailer, adminVars, fbVars, issuedOrders>>

\* POST /api/confirm-payment, up to the first await inside sendConfirmationEmails
ConfirmPayment ==
    /\ rev = "mem"
    /\ \E req \in ConfirmInputs(RefIds) :
         LET referenceId == req.referenceId
         IN IF \/ req.razorpay_payment_id = EMPTY
               \/ req.razorpay_order_id = EMPTY
               \/ req.razorpay_signature.alg = "none"
               \/ referenceId = EMPTY
            THEN /\ Reject("confirm-payment", req, 400,
                           Body(NULL, "Payment details are incomplete", NULL, NULL))
                 /\ UNCHANGED <<memVars, mailLog, failures>>
            ELSE IF ~verifyRazorpaySignature(req.razorpay_order_id,
                                             req.razorpay_payment_id,
                                             req.razorpay_signature)
            THEN /\ Reject("confirm-payment", req, 400,
                           Body(NULL, "Invalid payment signature", NULL, NULL))
                 /\ UNCHANGED <<memVars, mailLog, failures>>
            ELSE IF referenceId \notin DOMAIN registrations
            THEN /\ Reject("confirm-payment", req, 404,
                           Body(NULL, "Invalid reference ID", NULL, NULL))
                 /\ UNCHANGED <<memVars, mailLog, failures>>
            ELSE /\ registrations' =
                        [registrations EXCEPT
                           ![referenceId].paymentConfirmed = TRUE,
                           ![referenceId].transactionId = req.razorpay_payment_id]
                 /\ confirmedPayments' = confirmedPayments \cup {referenceId}
                 /\ \E ok \in BOOLEAN :
                      /\ SendParticipantMail("confirm-payment", referenceId,
                                              req.razorpay_payment_id, ok)
                      /\ Suspend(req, Handler("confirm-payment", "mail1", referenceId,
                                         req.razorpay_order_id,
                                         req.razorpay_payment_id, ok))
    /\ UNCHANGED <<envVars, compared, mailer, adminVars, fbVars, issuedOrders>>

\* a webhook request: the bytes of the body and the x-razorpay-signature header
WebhookRequest(raw, sg) == [body |-> raw, signature |-> sg]

\* every body arrives signed by the sender and unsigned; two arrive with a
\* signature made without the secret
WebhookInputs(bodies) ==
    {WebhookRequest(raw, Hmac(WEBHOOK_SECRET, raw)) : raw \in bodies}
    \cup {WebhookRequest(raw, NoSignature) : raw \in bodies}
    \cup {WebhookRequest(raw, Hmac(FORGED_KEY, raw)) :
            raw \in bodies \cap {RawBody("compact", "ok", "payment.captured", "o1", "p1"),
                                 RawBody("compact", "ok", "payment.failed", "o1", "p1")}}

\* a lookup that falls back on the first registration when none has the order
FindReferenceId_First(orderId) ==
    LET matches == {k \in DOMAIN registrations : registrations[k].orderId = orderId}
    IN IF matches # {} THEN Least(matches)
       ELSE IF DOMAIN registrations # {} THEN Least(DOMAIN registrations)
       ELSE NULL

\* for (const [key, value] of registrations.entries()) if (value.orderId === orderId)
\* -- the first match in insertion order, null when there is none
FindReferenceId(orderId) ==
    LET matches == {k \in DOMAIN registrations : registrations[k].orderId = orderId}
    IN IF matches = {} THEN NULL ELSE Least(matches)

\* the signature check both webhook handlers start with: it rejects only when the
\* header is present, the secret is configured and the two HMACs differ
WebhookSignatureRejected(webhookSignature, signedText) ==
    /\ webhookSignature.alg # "none"
    /\ webhookSecret # NULL
    /\ Hmac(webhookSecret, signedText) # webhookSignature

IsPaymentSuccess(event) == event = "payment.captured" \/ event = "payment.authorized"

MemWebhookBodies == {raw \in RawBodies : raw.shape # "notjson"}

\* POST /api/razorpay-webhook, up to the first await inside sendConfirmationEmails
RazorpayWebhook ==
    /\ rev = "mem"
    /\ \E req \in WebhookInputs(MemWebhookBodies) :
         LET webhookData == JsonParse(req.body)
             orderId == webhookData.order_id
             paymentId == webhookData.id
             referenceId == FindReferenceId(orderId)
         IN IF WebhookSignatureRejected(req.signature, JsonStringify(webhookData))
            THEN /\ Reject("webhook", req, 401,
                           Body("false", "Invalid signature", NULL, NULL))
                 /\ UNCHANGED <<memVars, mailLog, failures>>
            ELSE IF IsPaymentSuccess(webhookData.event) /\ webhookData.shape = "ok"
                    /\ referenceId # NULL
            THEN /\ registrations' =
                        [registrations EXCEPT
                           ![referenceId].paymentConfirmed = TRUE,
                           ![referenceId].transactionId = paymentId]
                 /\ confirmedPayments' = confirmedPayments \cup {referenceId}
                 /\ \E ok \in BOOLEAN :
                      /\ SendParticipantMail("webhook", referenceId, paymentId, ok)
                      /\ Suspend(req, Handler("webhook", "mail1", referenceId, orderId,
                                         paymentId, ok))
            ELSE \* no registration for the order, payment.failed, another event,
                 \* or the TypeError on webhookData.payload caught at line 383
                 /\ Reject("webhook", req, 200, Body("true", NULL, NULL, NULL))
                 /\ UNCHANGED <<memVars, mailLog, failures>>
    /\ UNCHANGED <<envVars, compared, mailer, adminVars, fbVars, issuedOrders>>

(***************************************************************************)
(* Firebase revision                                                       *)
(***************************************************************************)
\* a node of registrations/{uid} or users/{uid}/registration; an absent field is NULL
\* (paymentConfirmed, only ever written true, is FALSE when absent)
EmptyNode ==
    [fullName |-> NULL, email |-> NULL, phone |-> NULL, orderId |-> NULL,
     orderStatus |-> NULL, paymentConfirmed |-> FALSE, transactionId |-> NULL,
     paymentStatus |-> NULL, paymentFailureReason |-> NULL]

\* ref.once('value').val(): the node, or the empty node when there is none
Val(ref, uid) == IF uid \in DOMAIN ref THEN ref[uid] ELSE EmptyNode

\* authenticateFirebase: the uid of a valid token, NULL (401) otherwise
authenticateFirebase(token) == IF token \in Uids THEN token ELSE NULL

\* users are interchangeable: the one who calls first is taken to be the least, and
\* another calls once every lesser one has
ActiveUids ==
    LET seen == DOMAIN registrationsRef \cup DOMAIN usersRegistrationRef
                \cup {h.id : h \in Suspended}
    IN {u \in Uids : \A v \in Uids : Rank[v] < Rank[u] => v \in seen}

\* every body arrives with each user's token; one arrives with the invalid token
Requests(bodies) ==
    [token : ActiveUids, body : bodies]
    \cup {[token |-> "invalid", body |-> CHOOSE b \in bodies : TRUE]}

Unauthorized(kind, req) ==
    Reject(kind, req, 401, Body(NULL, "Unauthorized: Invalid token", NULL, NULL))

FbRegistrationInputs ==
    [fullName : {"A", "B"}, email : {"a@x.com"}, phone : {"+910000000000"}]

\* ref.set({...registrationData, timestamp}): the node holds these fields only
RegistrationNode(data) ==
    [EmptyNode EXCEPT !.fullName = data.fullName, !.email = data.email,
                      !.phone = data.phone]

\* POST /api/user/registrations, up to the await of the first set
UserRegistrations ==
    /\ rev = "fb"
    /\ \E req \in Requests(FbRegistrationInputs) :
         LET token == req.token
             data == req.body
             uid == authenticateFirebase(token)
         IN IF uid = NULL
            THEN Unauthorized("registrations", req)
            ELSE Suspend(req, [Handler("registrations", "setUserReg", uid, NULL, NULL, TRUE)
                          EXCEPT !.data = data])
    /\ UNCHANGED <<envVars, compared, mailer, adminVars, memVars, fbVars, quiet>>

\* db.ref(`users/${uid}/registration`).set(...) done; registrationsRef.child(uid).set
UserRegistrationsSetUser(h) ==
    /\ h.kind = "registrations" /\ h.pc = "setUserReg"
    /\ usersRegistrationRef' = Put(usersRegistrationRef, h.id, RegistrationNode(h.data))
    /\ Resume(h, [h EXCEPT !.pc = "setReg"])
    /\ UNCHANGED <<envVars, compared, mailer, adminVars, memVars, registrationsRef, confirmedPaymentsRef, quiet>>

\* a registration that starts the user afresh, confirmed payment included
UserRegistrationsSetGlobal_Resets(h) ==
    /\ h.kind = "registrations" /\ h.pc = "setReg"
    /\ registrationsRef' = Put(registrationsRef, h.id, RegistrationNode(h.data))
    /\ confirmedPaymentsRef' =
           [k \in DOMAIN confirmedPaymentsRef \ {h.id} |-> confirmedPaymentsRef[k]]
    /\ Finish(h, 200, Body("true", NULL, NULL, NULL))
    /\ UNCHANGED <<envVars, compared, mailer, adminVars, memVars, usersRegistrationRef, quiet>>

\* registrationsRef.child(uid).set(...) done; the handler answers
UserRegistrationsSetGlobal(h) ==
    /\ h.kind = "registrations" /\ h.pc = "setReg"
    /\ registrationsRef' = Put(registrationsRef, h.id, RegistrationNode(h.data))
    /\ Finish(h, 200, Body("true", NULL, NULL, NULL))
    /\ UNCHANGED <<envVars, compared, mailer, adminVars, memVars, usersRegistrationRef, confirmedPaymentsRef, quiet>>

\* admin.auth().getUser(uid): the modelled accounts have no displayName and no email
UserRecord(uid) == [displayName |-> NULL, email |-> NULL]

Or(a, b) == IF a = NULL \/ a = EMPTY THEN b ELSE a

\* basicRegistration of create-payment-order
BasicRegistration(userRecord) ==
    [EmptyNode EXCEPT !.fullName = Or(userRecord.displayName, "Unknown"),
                      !.email = Or(userRecord.email, EMPTY),
                      !.phone = EMPTY]

\* POST /api/create-payment-order (Firebase), up to the await that follows the read
\* of registrations/{uid}
FbCreatePaymentOrder ==
    /\ rev = "fb"
    /\ \E token \in ActiveUids \cup {"invalid"} :
         LET req == [token |-> token]
             uid == authenticateFirebase(token)
         IN IF uid = NULL
            THEN Unauthorized("create-payment-order", req)
            ELSE /\ GatewayHasOrderIds
                 /\ \* userSnapshot = registrations/{uid} as read on arrival
                    LET userSnapshot == Val(registrationsRef, uid)
                    IN IF uid \notin DOMAIN registrationsRef
                       THEN Suspend(req, [Handler("create-payment-order", "getUser",
                                                  uid, NULL, NULL, TRUE)
                                          EXCEPT !.data = userSnapshot])
                       ELSE Suspend(req, [Handler("create-payment-order", "gateway",
                                                  uid, NULL, NULL, TRUE)
                                          EXCEPT !.data = userSnapshot])
    /\ UNCHANGED <<envVars, compared, mailer, adminVars, memVars, fbVars, quiet>>

\* getUser done; registrationsRef.child(uid).set(basicRegistration)
FbCreateOrderGetUser(h) ==
    /\ h.kind = "create-payment-order" /\ h.pc = "getUser"
    /\ Resume(h, [h EXCEPT !.pc = "setReg"])
    /\ UNCHANGED <<envVars, compared, mailer, adminVars, memVars, fbVars, quiet>>

\* the set of registrations/{uid} done; the set of users/{uid}/registration
FbCreateOrderSetGlobal(h) ==
    /\ h.kind = "create-payment-order" /\ h.pc = "setReg"
    /\ registrationsRef' = Put(registrationsRef, h.id, BasicRegistration(UserRecord(h.id)))
    /\ Resume(h, [h EXCEPT !.pc = "setUserReg"])
    /\ UNCHANGED <<envVars, compared, mailer, adminVars, memVars, usersRegistrationRef, confirmedPaymentsRef, quiet>>

\* the set of users/{uid}/registration done; razorpay.orders.create
FbCreateOrderSetUser(h) ==
    /\ h.kind = "create-payment-order" /\ h.pc = "setUserReg"
    /\ usersRegistrationRef' =
           Put(usersRegistrationRef, h.id, BasicRegistration(UserRecord(h.id)))
    /\ Resume(h, [h EXCEPT !.pc = "gateway"])
    /\ UNCHANGED <<envVars, compared, mailer, adminVars, memVars, registrationsRef, confirmedPaymentsRef, quiet>>

\* let razorpay; try { razorpay = new Razorpay({key_id, key_secret}) } catch
\* { razorpay = null }: the constructor throws when a credential is absent.  The
\* in-memory revision has no client object (it posts to the gateway with axios).
RAZORPAY_CLIENT == "client"
RazorpayInit == IF rev = "fb" THEN {RAZORPAY_CLIENT, NULL} ELSE {NULL}

\* message of the TypeError that reading razorpay.orders throws when razorpay is null
NullOrdersError == "Cannot read properties of null (reading 'orders')"

\* a handler whose TypeError is left uncaught: the request gets no answer
FbCreateOrderGateway_Uncaught(h) ==
    /\ rev = "fb"
    /\ h.kind = "create-payment-order" /\ h.pc = "gateway"
    /\ razorpay = NULL
    /\ Resume(h, [h EXCEPT !.pc = "uncaught"])
    /\ UNCHANGED <<envVars, compared, mailer, adminVars, memVars, fbVars, quiet>>

\* razorpay.orders.create answers: an order, or an error (500).  With razorpay
\* null, reading razorpay.orders throws inside the inner try; the inner catch
\* reads razorpay.orders again and throws in its turn; the outer catch answers
\* 500 with err.message.
FbCreateOrderGateway(h) ==
    /\ rev = "fb"
    /\ h.kind = "create-payment-order" /\ h.pc = "gateway"
    /\ IF razorpay = NULL
       THEN /\ Finish(h, 500, Body("false", NullOrdersError, NULL, NULL))
            /\ UNCHANGED <<issuedOrders, failures>>
       ELSE \E ok \in BOOLEAN :
              /\ Outcome(ok)
              /\ IF ok
                 THEN LET orderId == Least(OrderIds \ issuedOrders)
                      IN /\ issuedOrders' = issuedOrders \cup {orderId}
                         /\ Resume(h, [h EXCEPT !.pc = "updReg", !.orderId = orderId])
                 ELSE /\ Finish(h, 500, Body("false", "Unknown Razorpay error", NULL, NULL))
                      /\ UNCHANGED issuedOrders
    /\ UNCHANGED <<envVars, compared, mailer, adminVars, memVars, fbVars, mailLog>>

\* ref.update(fields) writes the given fields and keeps the others; it creates the
\* node when there is none
OrderFields(node, orderId) ==
    [node EXCEPT !.orderId = orderId, !.orderStatus = "created"]

\* the update of registrations/{uid} with the order done
FbCreateOrderUpdateGlobal(h) ==
    /\ h.kind = "create-payment-order" /\ h.pc = "updReg"
    /\ registrationsRef' =
           Put(registrationsRef, h.id, OrderFields(Val(registrationsRef, h.id), h.orderId))
    /\ Resume(h, [h EXCEPT !.pc = "updUserReg"])
    /\ UNCHANGED <<envVars, compared, mailer, adminVars, memVars, usersRegistrationRef, confirmedPaymentsRef, quiet>>

\* the update of users/{uid}/registration with the order done; the handler answers
FbCreateOrderUpdateUser(h) ==
    /\ h.kind = "create-payment-order" /\ h.pc = "updUserReg"
    /\ usersRegistrationRef' =
           Put(usersRegistrationRef, h.id,
               OrderFields(Val(usersRegistrationRef, h.id), h.orderId))
    /\ Finish(h, 200, Body("true", NULL, NULL, h.orderId))
    /\ UNCHANGED <<envVars, compared, mailer, adminVars, memVars, registrationsRef, confirmedPaymentsRef, quiet>>

\* the fields confirm-payment and the captured webhook write to both copies
ConfirmedFields(node, paymentId) ==
    [node EXCEPT !.paymentConfirmed = TRUE, !.transactionId = paymentId,
                 !.paymentStatus = "Confirmed"]

\* the fields the failed webhook writes to both copies
FailedFields(node, reason) ==
    [node EXCEPT !.paymentStatus = "Failed", !.paymentFailureReason = reason]

\* POST /api/confirm-payment (Firebase), up to the await of the first update
FbConfirmPayment ==
    /\ rev = "fb"
    /\ \E req \in Requests(ConfirmInputs({NULL})) :
         LET token == req.token
             body == req.body
             uid == authenticateFirebase(token)
         IN IF uid = NULL
            THEN Unauthorized("confirm-payment", req)
            ELSE IF \/ body.razorpay_payment_id = EMPTY
                    \/ body.razorpay_order_id = EMPTY
                    \/ body.razorpay_signature.alg = "none"
            THEN Reject("confirm-payment", req, 400,
                        Body("false", "Payment details are incomplete", NULL, NULL))
            ELSE IF ~verifyRazorpaySignature(body.razorpay_order_id,
                                             body.razorpay_payment_id,
                                             body.razorpay_signature)
            THEN Reject("confirm-payment", req, 400,
                        Body("false", "Invalid payment signature", NULL, NULL))
            ELSE IF uid \notin DOMAIN registrationsRef
            THEN Reject("confirm-payment", req, 404,
                        Body("false", "User registration data not found", NULL, NULL))
            ELSE \* userData = userSnapshot.val()
                 Suspend(req, [Handler("confirm-payment", "updReg", uid,
                                       body.razorpay_order_id,
                                       body.razorpay_payment_id, TRUE)
                               EXCEPT !.data = registrationsRef[uid]])
    /\ UNCHANGED <<envVars, compared, mailer, adminVars, memVars, fbVars, quiet>>

IsPaymentRoute(h) == h.kind = "confirm-payment" \/ h.kind = "webhook"

\* the update of registrations/{uid} with the payment done
PaymentUpdateGlobal(h) ==
    /\ IsPaymentRoute(h) /\ h.pc = "updReg"
    /\ registrationsRef' =
           Put(registrationsRef, h.id,
               ConfirmedFields(Val(registrationsRef, h.id), h.transactionId))
    /\ Resume(h, [h EXCEPT !.pc = "updUserReg"])
    /\ UNCHANGED <<envVars, compared, mailer, adminVars, memVars, usersRegistrationRef, confirmedPaymentsRef, quiet>>

\* the update of users/{uid}/registration with the payment done
PaymentUpdateUser(h) ==
    /\ IsPaymentRoute(h) /\ h.pc = "updUserReg"
    /\ usersRegistrationRef' =
           Put(usersRegistrationRef, h.id,
               ConfirmedFields(Val(usersRegistrationRef, h.id), h.transactionId))
    /\ Resume(h, [h EXCEPT !.pc = "setConfirmed"])
    /\ UNCHANGED <<envVars, compared, mailer, adminVars, memVars, registrationsRef, confirmedPaymentsRef, quiet>>

\* confirmedPaymentsRef.child(uid).set done; sendConfirmationEmails is called
PaymentSetConfirmed(h) ==
    /\ IsPaymentRoute(h) /\ h.pc = "setConfirmed"
    /\ confirmedPaymentsRef' =
           Put(confirmedPaymentsRef, h.id,
               [paymentId |-> h.transactionId, orderId |-> h.orderId])
    /\ \E ok \in BOOLEAN :
         /\ SendParticipantMail(h.kind, h.id, h.transactionId, ok)
         /\ Resume(h, [h EXCEPT !.pc = "mail1", !.ok = ok])
    /\ UNCHANGED <<envVars, compared, mailer, adminVars, memVars, registrationsRef, usersRegistrationRef, issuedOrders>>

\* registrationsRef.orderByChild('orderId').equalTo(orderId), then
\* Object.keys(registrations)[0]: the first uid in key order, NULL when none
FindUid(orderId) ==
    LET matches == {u \in DOMAIN registrationsRef : registrationsRef[u].orderId = orderId}
    IN IF matches = {} THEN NULL ELSE Least(matches)

\* POST /api/inspiringshereen-webhook, up to the await that follows the query
InspiringshereenWebhook ==
    /\ rev = "fb"
    /\ \E req \in WebhookInputs(RawBodies) :
         LET webhook_body == req.body
             webhookData == JsonParse(webhook_body)
             orderId == webhookData.order_id
             uid == FindUid(orderId)
         IN IF webhook_body.shape = "notjson"
            THEN \* JSON.parse throws: the catch at line 956
                 Reject("webhook", req, 500,
                        Body("false", "Server error while processing webhook", NULL, NULL))
            ELSE IF WebhookSignatureRejected(req.signature, webhook_body)
            THEN Reject("webhook", req, 401, Body("false", "Invalid signature", NULL, NULL))
            ELSE IF webhookData.event \in {"payment.captured", "payment.authorized",
                                           "payment.failed"}
                    /\ webhookData.shape = "nopayload"
            THEN \* TypeError on webhookData.payload.payment: the catch at line 956
                 Reject("webhook", req, 500,
                        Body("false", "Server error while processing webhook", NULL, NULL))
            ELSE IF IsPaymentSuccess(webhookData.event) /\ uid # NULL
            THEN \* userData = registrations[uid]
                 Suspend(req, [Handler("webhook", "updReg", uid, orderId,
                                       webhookData.id, TRUE)
                               EXCEPT !.data = registrationsRef[uid]])
            ELSE IF webhookData.event = "payment.failed" /\ uid # NULL
            THEN Suspend(req, [Handler("webhook", "failReg", uid, orderId, NULL, TRUE)
                               EXCEPT !.data = registrationsRef[uid]])
            ELSE Reject("webhook", req, 200, Body("true", NULL, NULL, NULL))
    /\ UNCHANGED <<envVars, compared, mailer, adminVars, memVars, fbVars, quiet>>

\* the failed webhook's update of registrations/{uid} done
WebhookFailedGlobal(h) ==
    /\ h.kind = "webhook" /\ h.pc = "failReg"
    /\ registrationsRef' =
           Put(registrationsRef, h.id,
               FailedFields(Val(registrationsRef, h.id), "Unknown error"))
    /\ Resume(h, [h EXCEPT !.pc = "failUserReg"])
    /\ UNCHANGED <<envVars, compared, mailer, adminVars, memVars, usersRegistrationRef, confirmedPaymentsRef, quiet>>

\* the failed webhook's update of users/{uid}/registration done; it answers
WebhookFailedUser(h) ==
    /\ h.kind = "webhook" /\ h.pc = "failUserReg"
    /\ usersRegistrationRef' =
           Put(usersRegistrationRef, h.id,
               FailedFields(Val(usersRegistrationRef, h.id), "Unknown error"))
    /\ Finish(h, 200, Body("true", NULL, NULL, NULL))
    /\ UNCHANGED <<envVars, compared, mailer, adminVars, memVars, registrationsRef, confirmedPaymentsRef, quiet>>

\* GET /api/check-payment (Firebase), up to the answer or the second read
FbCheckPayment ==
    /\ rev = "fb"
    /\ \E token \in ActiveUids \cup {"invalid"} :
         LET req == [token |-> token]
             uid == authenticateFirebase(token)
         IN IF uid = NULL
            THEN Unauthorized("check-payment", req)
            ELSE IF uid \in DOMAIN confirmedPaymentsRef
            THEN Reject("check-payment", req, 200, Body("true", NULL, NULL, NULL))
            ELSE /\ inflight = EmptyBag
                 /\ Suspend(req, Handler("check-payment", "readReg", uid, NULL, NULL, TRUE))
    /\ UNCHANGED <<envVars, compared, mailer, adminVars, memVars, fbVars, quiet>>

\* the read of registrations/{uid} done; check-payment answers
FbCheckPaymentRead(h) ==
    /\ h.kind = "check-payment" /\ h.pc = "readReg"
    /\ IF h.id \in DOMAIN registrationsRef
       THEN Finish(h, 200, Body("false", NULL,
                                Or(registrationsRef[h.id].paymentStatus, "PENDING"), NULL))
       ELSE Finish(h, 200, Body("false", NULL, "UNKNOWN", NULL))
    /\ UNCHANGED <<envVars, compared, mailer, adminVars, memVars, fbVars, quiet>>

\* a map without one of its keys
Remove(map, key) == [k \in DOMAIN map \ {key} |-> map[k]]

\* the callers of the admin routes: one whose custom claims say admin, one not
ADMIN_TOKEN == "admin"
AdminCallers == {ADMIN_TOKEN, "u1"}

\* a Firebase Auth account: its custom claim admin and its disabled flag
Account(isAdmin) == [admin |-> isAdmin, disabled |-> FALSE]

\* the accounts there are when the service starts; the payment routes do not
\* read or write them, and the specifications of the payment service leave them
\* as they are
InitialAccounts == [k \in AdminCallers |-> Account(k = ADMIN_TOKEN)]

\* DELETE /api/admin/users/:userId, up to the await of the removal of
\* users/{userId}: authenticateFirebase, verifyAdmin (403 for a caller who is
\* not admin) and admin.auth().deleteUser(userId), which touch no stored
\* registration
AdminDeleteUser ==
    /\ rev = "fb"
    /\ \E token \in AdminCallers, userId \in DOMAIN usersRegistrationRef :
         LET req == [token |-> token, userId |-> userId]
         IN IF token # ADMIN_TOKEN
            THEN Reject("admin-delete", req, 403,
                        Body(NULL, "Forbidden: Admin access required", NULL, NULL))
            ELSE Suspend(req, Handler("admin-delete", "removeUser", userId,
                                      NULL, NULL, TRUE))
    /\ UNCHANGED <<envVars, compared, mailer, adminVars, memVars, fbVars, quiet>>

\* db.ref(`users/${userId}`).remove() done: users/{userId}/registration is gone
\* with the rest of the user's node; registrations/{userId} stays
AdminDeleteUserRemove(h) ==
    /\ h.kind = "admin-delete" /\ h.pc = "removeUser"
    /\ usersRegistrationRef' = Remove(usersRegistrationRef, h.id)
    /\ Finish(h, 200, Body("true", NULL, NULL, NULL))
    /\ UNCHANGED <<envVars, compared, mailer, adminVars, memVars, registrationsRef, confirmedPaymentsRef, quiet>>

\* the awaits on the Realtime Database and on Firebase Auth
DbAwaits == {"setReg", "setUserReg", "getUser", "updReg", "updUserReg",
             "setConfirmed", "failReg", "failUserReg", "readReg", "removeUser"}

\* the error text of each route's outer catch; error.message is the database's
CatchError(kind) ==
    IF kind = "webhook" THEN "Server error while processing webhook"
    ELSE IF kind = "check-payment" THEN "Server error while checking payment"
    ELSE "database error"

\* a catch block that logs the rejection and sends nothing
DbError_NoAnswer(h) ==
    /\ h.pc \in DbAwaits
    /\ Outcome(FALSE)
    /\ Live
    /\ inflight' = inflight (-) SetToBag({h})
    /\ lastResp' = NoResp
    /\ UNCHANGED <<ops, envVars, compared, mailer, adminVars, memVars, fbVars, issuedOrders, mailLog>>

\* the awaited database call rejects: the write is not made, and the handler's
\* outer catch answers 500
DbError(h) ==
    /\ h.pc \in DbAwaits
    /\ Outcome(FALSE)
    /\ Finish(h, 500, Body("false", CatchError(h.kind), NULL, NULL))
    /\ UNCHANGED <<envVars, compared, mailer, adminVars, memVars, fbVars, issuedOrders, mailLog>>

FbNext ==
    \/ UserRegistrations
    \/ \E h \in Suspended : UserRegistrationsSetUser(h)
    \/ \E h \in Suspended : UserRegistrationsSetGlobal(h)
    \/ FbCreatePaymentOrder
    \/ \E h \in Suspended : FbCreateOrderGetUser(h)
    \/ \E h \in Suspended : FbCreateOrderSetGlobal(h)
    \/ \E h \in Suspended : FbCreateOrderSetUser(h)
    \/ \E h \in Suspended : FbCreateOrderGateway(h)
    \/ \E h \in Suspended : FbCreateOrderUpdateGlobal(h)
    \/ \E h \in Suspended : FbCreateOrderUpdateUser(h)
    \/ FbConfirmPayment
    \/ \E h \in Suspended : PaymentUpdateGlobal(h)
    \/ \E h \in Suspended : PaymentUpdateUser(h)
    \/ \E h \in Suspended : PaymentSetConfirmed(h)
    \/ InspiringshereenWebhook
    \/ \E h \in Suspended : WebhookFailedGlobal(h)
    \/ \E h \in Suspended : WebhookFailedUser(h)
    \/ FbCheckPayment
    \/ \E h \in Suspended : FbCheckPaymentRead(h)
    \/ AdminDeleteUser
    \/ \E h \in Suspended : AdminDeleteUserRemove(h)
    \/ \E h \in Suspended : DbError(h)

MemNext ==
    \/ Register
    \/ CreatePaymentOrder
    \/ \E h \in Suspended : CreatePaymentOrderGateway(h)
    \/ CheckPayment
    \/ ConfirmPayment
    \/ RazorpayWebhook

MailNext ==
    \/ \E h \in Suspended : ParticipantMailDone(h)
    \/ \E h \in Suspended : OperatorMailDone(h)

Init ==
    /\ rev \in {"mem", "fb"}
    /\ webhookSecret \in {NULL, WEBHOOK_SECRET}
    /\ razorpay \in RazorpayInit
    /\ registrations = EmptyMap
    /\ confirmedPayments = {}
    /\ registrationsRef = EmptyMap
    /\ usersRegistrationRef = EmptyMap
    /\ confirmedPaymentsRef = EmptyMap
    /\ issuedOrders = {}
    /\ mailLog = <<>>
    /\ inflight = EmptyBag
    /\ ops = 0
    /\ failures = 0
    /\ lastResp = NoResp
    /\ compared = NoComparison
    /\ mailer = NoMailer
    /\ authUsers = InitialAccounts
    /\ usersProfileRef = EmptyMap

Next == MemNext \/ FbNext \/ MailNext

Spec == Init /\ [][Next]_vars

\* Two requests carry signatures to be compared with the same generated digest;
\* each comparison is made once.
serviceVars == <<rev, webhookSecret, razorpay, registrations, confirmedPayments,
                 registrationsRef, usersRegistrationRef, confirmedPaymentsRef,
                 issuedOrders, mailLog, inflight, ops, failures, lastResp,
                 authUsers, usersProfileRef>>

CompareInit ==
    /\ rev \in {"mem", "fb"}
    /\ webhookSecret = WEBHOOK_SECRET
    /\ razorpay = NULL
    /\ registrations = EmptyMap
    /\ confirmedPayments = {}
    /\ registrationsRef = EmptyMap
    /\ usersRegistrationRef = EmptyMap
    /\ confirmedPaymentsRef = EmptyMap
    /\ issuedOrders = {}
    /\ mailLog = <<>>
    /\ inflight = EmptyBag
    /\ ops = 0
    /\ failures = 0
    /\ lastResp = NoResp
    /\ \E g \in HexStrings(DigestLen), a \in HexStrings(DigestLen),
          b \in HexStrings(DigestLen) \cup HexStrings(DigestLen - 1) :
         compared = [NoComparison EXCEPT !.generated = g, !.first = a, !.second = b]
    /\ mailer = NoMailer
    /\ authUsers = InitialAccounts
    /\ usersProfileRef = EmptyMap

CompareFirst ==
    /\ compared.done1 = NotCompared
    /\ compared' = [compared EXCEPT
                      !.done1 = StrictEquals(compared.generated, compared.first)]
    /\ UNCHANGED <<serviceVars, mailer>>

CompareSecond ==
    /\ compared.done2 = NotCompared
    /\ compared' = [compared EXCEPT
                      !.done2 = StrictEquals(compared.generated, compared.second)]
    /\ UNCHANGED <<serviceVars, mailer>>

CompareNext == CompareFirst \/ CompareSecond

CompareSpec == CompareInit /\ [][CompareNext]_vars

\* One call of sendConfirmationEmails on any stored registration, each sendMail
\* succeeding or failing.
MailerInit ==
    /\ rev \in {"mem", "fb"}
    /\ webhookSecret = WEBHOOK_SECRET
    /\ razorpay = NULL
    /\ registrations = EmptyMap
    /\ confirmedPayments = {}
    /\ registrationsRef = EmptyMap
    /\ usersRegistrationRef = EmptyMap
    /\ confirmedPaymentsRef = EmptyMap
    /\ issuedOrders = {}
    /\ mailLog = <<>>
    /\ inflight = EmptyBag
    /\ ops = 0
    /\ failures = 0
    /\ lastResp = NoResp
    /\ compared = NoComparison
    /\ authUsers = InitialAccounts
    /\ usersProfileRef = EmptyMap
    /\ \E fullName \in {"A", "B"}, email \in {"a@x.com", ""}, phone \in PhoneValues,
          ok1 \in BOOLEAN, ok2 \in BOOLEAN :
         mailer = [NoMailer EXCEPT
                     !.userData = [fullName |-> fullName, email |-> email,
                                   phone |-> phone],
                     !.ok1 = ok1, !.ok2 = ok2, !.pc = "call"]

\* userMailOptions and adminMailOptions are built; the participant mail is sent
MailerBuildOptions ==
    /\ mailer.pc = "call"
    /\ IF PhoneReplaceThrows(mailer.userData.phone)
       THEN mailer' = [mailer EXCEPT !.pc = "done", !.outcome = "throws"]
       ELSE mailer' = [mailer EXCEPT !.pc = "send1",
                                     !.attempts = <<"participant">>]
    /\ UNCHANGED <<serviceVars, compared>>

\* await transporter.sendMail(userMailOptions) is over
MailerParticipantDone ==
    /\ mailer.pc = "send1"
    /\ IF mailer.ok1
       THEN mailer' = [mailer EXCEPT !.pc = "send2",
                                     !.attempts = Append(@, "operator")]
       ELSE mailer' = [mailer EXCEPT !.pc = "done", !.outcome = "false"]
    /\ UNCHANGED <<serviceVars, compared>>

\* await transporter.sendMail(adminMailOptions) is over
MailerOperatorDone ==
    /\ mailer.pc = "send2"
    /\ mailer' = [mailer EXCEPT !.pc = "done",
                                 !.outcome = IF mailer.ok2 THEN "true" ELSE "false"]
    /\ UNCHANGED <<serviceVars, compared>>

MailerNext == MailerBuildOptions \/ MailerParticipantDone \/ MailerOperatorDone

MailerSpec == MailerInit /\ [][MailerNext]_vars

(***************************************************************************)
(* Admin routes (Firebase revision): every one runs authenticateFirebase   *)
(* and verifyAdmin before its handler; /api/setup-admin runs neither and   *)
(* tests a setup token.  AdminSpec follows these routes and the Auth       *)
(* accounts apart from the payment routes.                                 *)
(***************************************************************************)
SETUP_TOKEN == "initial-setup-token"

\* the uids of the accounts: two there from the start, one that can be created
AccountIds == AdminCallers \cup {"n1"}

\* what a request carries as its bearer token: nothing, a token that does not
\* verify, or the ID token of an account; verifyIdToken is called without
\* checkRevoked, so the token of a deleted or disabled account still verifies
AdminTokens == {"none", "invalid"} \cup AdminCallers \cup DOMAIN authUsers

\* a gate that lets every authenticated caller through
GateStatus_AuthenticatedOnly(token) ==
    IF token = "none" \/ token = "invalid" THEN 401 ELSE 0

\* authenticateFirebase then verifyAdmin: the status they answer, 0 when they
\* call next(); admin.auth().getUser rejects for an account that is gone
GateStatus(token) ==
    IF token = "none" \/ token = "invalid" THEN 401
    ELSE IF token \notin DOMAIN authUsers THEN 500
    ELSE IF ~authUsers[token].admin THEN 403
    ELSE 0

\* the answer of the middleware that stops the request
AdminGate(kind, req) ==
    Reject(kind, req, GateStatus(req.token),
           Body(NULL,
                IF req.token = "none"
                THEN "Unauthorized: No valid authentication token provided"
                ELSE IF req.token = "invalid" THEN "Unauthorized: Invalid token"
                ELSE IF req.token \notin DOMAIN authUsers
                THEN "Error verifying admin status"
                ELSE "Forbidden: Admin access required",
                NULL, NULL))

\* a handler of an admin route suspended at an await, with what it was called with
AdminHandler(kind, pc, userId, token, flag) ==
    [Handler(kind, pc, userId, NULL, NULL, TRUE)
       EXCEPT !.data = [caller |-> token, flag |-> flag]]

paymentVars == <<envVars, compared, mailer, memVars, fbVars, quiet>>

\* GET /api/admin/registrations: reads registrations and answers
AdminListRegistrations ==
    /\ rev = "fb"
    /\ \E token \in AdminTokens :
         LET req == [token |-> token]
         IN IF GateStatus(token) # 0
            THEN AdminGate("admin-registrations", req)
            ELSE Reject("admin-registrations", req, 200, Body("true", NULL, NULL, NULL))
    /\ UNCHANGED <<paymentVars, adminVars>>

\* the users/{uid} node made for an account that has none
ProfileOf(uid) == [fullName |-> "", email |-> uid]

\* GET /api/admin/users, up to the await of listUsers
AdminListUsers ==
    /\ rev = "fb"
    /\ \E token \in AdminTokens :
         LET req == [token |-> token]
         IN IF GateStatus(token) # 0
            THEN AdminGate("admin-users", req)
            ELSE Suspend(req, AdminHandler("admin-users", "listUsers", NULL, token, FALSE))
    /\ UNCHANGED <<paymentVars, adminVars>>

\* the loop over the listed accounts, taken as one step: userRef.set(...) for
\* each account without a users/{uid} node; the handler answers
AdminListUsersFill(h) ==
    /\ h.kind = "admin-users" /\ h.pc = "listUsers"
    /\ usersProfileRef' =
           [uid \in DOMAIN authUsers \cup DOMAIN usersProfileRef |->
               IF uid \in DOMAIN usersProfileRef THEN usersProfileRef[uid]
               ELSE ProfileOf(uid)]
    /\ Finish(h, 200, Body("true", NULL, NULL, NULL))
    /\ UNCHANGED <<paymentVars, authUsers>>

\* PUT /api/admin/users/:userId/toggle-status, up to the await of updateUser
AdminToggleStatus ==
    /\ rev = "fb"
    /\ \E token \in AdminTokens, userId \in AccountIds,
          disabled \in {"true", "false", "yes"} :
         LET req == [token |-> token, userId |-> userId, disabled |-> disabled]
         IN IF GateStatus(token) # 0
            THEN AdminGate("admin-toggle", req)
            ELSE IF disabled \notin {"true", "false"}
            THEN Reject("admin-toggle", req, 400,
                        Body("false", "Disabled status must be a boolean", NULL, NULL))
            ELSE Suspend(req, AdminHandler("admin-toggle", "updateUser", userId, token,
                                           disabled = "true"))
    /\ UNCHANGED <<paymentVars, adminVars>>

\* admin.auth().updateUser(userId, {disabled}) done, or rejected for an account
\* that does not exist
AdminToggleStatusUpdate(h) ==
    /\ h.kind = "admin-toggle" /\ h.pc = "updateUser"
    /\ IF h.id \in DOMAIN authUsers
       THEN /\ authUsers' = [authUsers EXCEPT ![h.id].disabled = h.data.flag]
            /\ Finish(h, 200, Body("true", NULL, NULL, NULL))
       ELSE /\ UNCHANGED authUsers
            /\ Finish(h, 500, Body("false", "auth/user-not-found", NULL, NULL))
    /\ UNCHANGED <<paymentVars, usersProfileRef>>

\* DELETE /api/admin/users/:userId with the Auth accounts followed, up to the
\* await of deleteUser
AdminDeleteAccount ==
    /\ rev = "fb"
    /\ \E token \in AdminTokens, userId \in AccountIds :
         LET req == [token |-> token, userId |-> userId]
         IN IF GateStatus(token) # 0
            THEN AdminGate("admin-delete", req)
            ELSE Suspend(req, AdminHandler("admin-delete", "deleteUser", userId, token,
                                           FALSE))
    /\ UNCHANGED <<paymentVars, adminVars>>

\* admin.auth().deleteUser(userId) done, or rejected for an account that does
\* not exist
AdminDeleteAccountAuth(h) ==
    /\ h.kind = "admin-delete" /\ h.pc = "deleteUser"
    /\ IF h.id \in DOMAIN authUsers
       THEN /\ authUsers' = Remove(authUsers, h.id)
            /\ Resume(h, [h EXCEPT !.pc = "removeData"])
       ELSE /\ UNCHANGED authUsers
            /\ Finish(h, 500, Body("false", "auth/user-not-found", NULL, NULL))
    /\ UNCHANGED <<paymentVars, usersProfileRef>>

\* db.ref(`users/${userId}`).remove() done; the handler answers
AdminDeleteAccountData(h) ==
    /\ h.kind = "admin-delete" /\ h.pc = "removeData"
    /\ usersProfileRef' = Remove(usersProfileRef, h.id)
    /\ usersRegistrationRef' = Remove(usersRegistrationRef, h.id)
    /\ Finish(h, 200, Body("true", NULL, NULL, NULL))
    /\ UNCHANGED <<envVars, compared, mailer, memVars, registrationsRef,
                   confirmedPaymentsRef, quiet, authUsers>>

\* POST /api/admin/users, up to the await of createUser; the uid of the new
\* account stands for its email
AdminCreateUser ==
    /\ rev = "fb"
    /\ \E token \in AdminTokens, email \in AccountIds \cup {EMPTY}, isAdmin \in BOOLEAN :
         LET req == [token |-> token, email |-> email, password |-> "pw",
                     isAdmin |-> isAdmin]
         IN IF GateStatus(token) # 0
            THEN AdminGate("admin-create", req)
            ELSE IF email = EMPTY
            THEN Reject("admin-create", req, 400,
                        Body("false", "Email and password are required", NULL, NULL))
            ELSE Suspend(req, AdminHandler("admin-create", "createUser", email, token,
                                           isAdmin))
    /\ UNCHANGED <<paymentVars, adminVars>>

\* admin.auth().createUser(...) done, or rejected for an email already in use
AdminCreateUserAuth(h) ==
    /\ h.kind = "admin-create" /\ h.pc = "createUser"
    /\ IF h.id \notin DOMAIN authUsers
       THEN /\ authUsers' = Put(authUsers, h.id, Account(FALSE))
            /\ Resume(h, [h EXCEPT !.pc = IF h.data.flag THEN "setClaims" ELSE "setUser"])
       ELSE /\ UNCHANGED authUsers
            /\ Finish(h, 500, Body("false", "auth/email-already-exists", NULL, NULL))
    /\ UNCHANGED <<paymentVars, usersProfileRef>>

\* setCustomUserClaims(uid, {admin: true}) done, or rejected for an account that
\* is gone
AdminCreateUserClaims(h) ==
    /\ h.kind = "admin-create" /\ h.pc = "setClaims"
    /\ IF h.id \in DOMAIN authUsers
       THEN /\ authUsers' = [authUsers EXCEPT ![h.id].admin = TRUE]
            /\ Resume(h, [h EXCEPT !.pc = "setUser"])
       ELSE /\ UNCHANGED authUsers
            /\ Finish(h, 500, Body("false", "auth/user-not-found", NULL, NULL))
    /\ UNCHANGED <<paymentVars, usersProfileRef>>

\* db.ref(`users/${uid}`).set({fullName, email, phone, createdAt}) done; the
\* handler answers
AdminCreateUserData(h) ==
    /\ h.kind = "admin-create" /\ h.pc = "setUser"
    /\ usersProfileRef' = Put(usersProfileRef, h.id, ProfileOf(h.id))
    /\ usersRegistrationRef' = Remove(usersRegistrationRef, h.id)
    /\ Finish(h, 200, Body("true", NULL, NULL, h.id))
    /\ UNCHANGED <<envVars, compared, mailer, memVars, registrationsRef,
                   confirmedPaymentsRef, quiet, authUsers>>

\* POST /api/setup-admin, up to the await after getUserByEmail
SetupAdmin ==
    /\ rev = "fb"
    /\ \E setupToken \in {SETUP_TOKEN, "guess", EMPTY}, adminEmail \in AccountIds :
         LET req == [token |-> "none", setupToken |-> setupToken,
                     adminEmail |-> adminEmail]
         IN IF setupToken = EMPTY \/ setupToken # SETUP_TOKEN
            THEN Reject("setup-admin", req, 403,
                        Body(NULL, "Unauthorized setup attempt", NULL, NULL))
            ELSE Suspend(req, AdminHandler("setup-admin",
                                           IF adminEmail \in DOMAIN authUsers
                                           THEN "setClaims" ELSE "createUser",
                                           adminEmail, "none", TRUE))
    /\ UNCHANGED <<paymentVars, adminVars>>

\* setCustomUserClaims(userRecord.uid, {admin: true}) for the account found by
\* getUserByEmail done, and the handler answers; for an account that is gone
\* meanwhile the call rejects with auth/user-not-found inside the inner try, and
\* the handler goes on to create the account
SetupAdminClaims(h) ==
    /\ h.kind = "setup-admin" /\ h.pc = "setClaims"
    /\ IF h.id \in DOMAIN authUsers
       THEN /\ authUsers' = [authUsers EXCEPT ![h.id].admin = TRUE]
            /\ Finish(h, 200, Body("true", NULL, NULL, h.id))
       ELSE /\ UNCHANGED authUsers
            /\ Resume(h, [h EXCEPT !.pc = "createUser"])
    /\ UNCHANGED <<paymentVars, usersProfileRef>>

\* createUser({email: adminEmail, ...}) done, or rejected for an email in use
SetupAdminCreate(h) ==
    /\ h.kind = "setup-admin" /\ h.pc = "createUser"
    /\ IF h.id \notin DOMAIN authUsers
       THEN /\ authUsers' = Put(authUsers, h.id, Account(FALSE))
            /\ Resume(h, [h EXCEPT !.pc = "setNewClaims"])
       ELSE /\ UNCHANGED authUsers
            /\ Finish(h, 500, Body(NULL, "auth/email-already-exists", NULL, NULL))
    /\ UNCHANGED <<paymentVars, usersProfileRef>>

\* setCustomUserClaims(newUserRecord.uid, {admin: true}) done, and the handler
\* answers; rejected for an account that is gone meanwhile
SetupAdminNewClaims(h) ==
    /\ h.kind = "setup-admin" /\ h.pc = "setNewClaims"
    /\ IF h.id \in DOMAIN authUsers
       THEN /\ authUsers' = [authUsers EXCEPT ![h.id].admin = TRUE]
            /\ Finish(h, 200, Body("true", NULL, NULL, h.id))
       ELSE /\ UNCHANGED authUsers
            /\ Finish(h, 500, Body(NULL, "auth/user-not-found", NULL, NULL))
    /\ UNCHANGED <<paymentVars, usersProfileRef>>

\* The Firebase revision with no registration stored; the account named admin
\* holds the admin claim, or not yet.
AdminInit ==
    /\ rev = "fb"
    /\ webhookSecret = WEBHOOK_SECRET
    /\ razorpay = RAZORPAY_CLIENT
    /\ registrations = EmptyMap
    /\ confirmedPayments = {}
    /\ registrationsRef = EmptyMap
    /\ usersRegistrationRef = EmptyMap
    /\ confirmedPaymentsRef = EmptyMap
    /\ issuedOrders = {}
    /\ mailLog = <<>>
    /\ inflight = EmptyBag
    /\ ops = 0
    /\ failures = 0
    /\ lastResp = NoResp
    /\ compared = NoComparison
    /\ mailer = NoMailer
    /\ \E isAdmin \in BOOLEAN :
         authUsers = [k \in AdminCallers |-> Account(k = ADMIN_TOKEN /\ isAdmin)]
    /\ usersProfileRef = EmptyMap

AdminNext ==
    \/ AdminListRegistrations
    \/ AdminListUsers
    \/ \E h \in Suspended : AdminListUsersFill(h)
    \/ AdminToggleStatus
    \/ \E h \in Suspended : AdminToggleStatusUpdate(h)
    \/ AdminDeleteAccount
    \/ \E h \in Suspended : AdminDeleteAccountAuth(h)
    \/ \E h \in Suspended : AdminDeleteAccountData(h)
    \/ AdminCreateUser
    \/ \E h \in Suspended : AdminCreateUserAuth(h)
    \/ \E h \in Suspended : AdminCreateUserClaims(h)
    \/ \E h \in Suspended : AdminCreateUserData(h)
    \/ SetupAdmin
    \/ \E h \in Suspended : SetupAdminClaims(h)
    \/ \E h \in Suspended : SetupAdminCreate(h)
    \/ \E h \in Suspended : SetupAdminNewClaims(h)

AdminSpec == AdminInit /\ [][AdminNext]_vars

\* every step a suspended handler can take: the external call it awaits returns
\* or fails
HandlerSteps ==
    \E h \in Suspended :
        \/ CreatePaymentOrderGateway(h)
        \/ ParticipantMailDone(h)
        \/ OperatorMailDone(h)
        \/ UserRegistrationsSetUser(h)
        \/ UserRegistrationsSetGlobal(h)
        \/ FbCreateOrderGetUser(h)
        \/ FbCreateOrderSetGlobal(h)
        \/ FbCreateOrderSetUser(h)
        \/ FbCreateOrderGateway(h)
        \/ FbCreateOrderUpdateGlobal(h)
        \/ FbCreateOrderUpdateUser(h)
        \/ PaymentUpdateGlobal(h)
        \/ PaymentUpdateUser(h)
        \/ PaymentSetConfirmed(h)
        \/ WebhookFailedGlobal(h)
        \/ WebhookFailedUser(h)
        \/ FbCheckPaymentRead(h)
        \/ AdminDeleteUserRemove(h)
        \/ DbError(h)

\* The service with every external call eventually returning or failing, run
\* with the webhook secret configured and the Razorpay client initialised.
LiveInit ==
    /\ Init
    /\ webhookSecret = WEBHOOK_SECRET
    /\ rev = "fb" => razorpay = RAZORPAY_CLIENT

LiveSpec == LiveInit /\ [][Next]_vars /\ WF_vars(HandlerSteps)

\* The in-memory revision with the referenceId drawn without the freshness
\* idealisation.
DrawInit == Init /\ rev = "mem"

DrawNext ==
    \/ RegisterAnyId
    \/ CreatePaymentOrder
    \/ \E h \in Suspended : CreatePaymentOrderGateway(h)
    \/ CheckPayment
    \/ ConfirmPayment
    \/ RazorpayWebhook
    \/ MailNext

DrawSpec == DrawInit /\ [][DrawNext]_vars

(***************************************************************************)
(* Properties                                                              *)
(***************************************************************************)
\* the registration records of the running revision, by identifier
Records == IF rev = "mem" THEN registrations ELSE registrationsRef

IsPaid(id) == id \in DOMAIN Records /\ Records[id].paymentConfirmed

\* the step takes in a request of this route
Arrival(kind) == lastResp'.arrival /\ lastResp'.kind = kind

\* the step takes in the request that handler h serves
Begins(h) == lastResp'.arrival /\ CopiesIn(h, inflight') > CopiesIn(h, inflight)

\* the step is one of suspended handler h
Steps(h) == CopiesIn(h, inflight') < CopiesIn(h, inflight)

\* the body of a confirm-payment request, and the registration it names
ConfirmBody(req) == IF rev = "mem" THEN req ELSE req.body
ConfirmId(req) == IF rev = "mem" THEN req.referenceId ELSE authenticateFirebase(req.token)

\* sendConfirmationEmails, called by confirm-payment, has sent both mails for (id, p)
ConfirmMailed(id, p) ==
    \E k \in 1..Len(mailLog) :
        /\ mailLog[k].to = "operator" /\ mailLog[k].by = "confirm-payment"
        /\ mailLog[k].referenceId = id /\ mailLog[k].transactionId = p

\* C1: while a confirm-payment call and a payment.captured / payment.authorized
\* webhook for the same registration and the same orderId are both in progress,
\* sendConfirmationEmails has been dispatched at most once for that registration.
C1_ConcurrentSingleDispatch ==
    \A c, w \in Suspended :
        (/\ c.kind = "confirm-payment"
         /\ w.kind = "webhook" /\ w.transactionId # NULL
         /\ c.id = w.id /\ c.orderId = w.orderId)
        => Dispatches(c.id) <= 1

\* C2: a confirm-payment call that comes, with no other call in progress, for a
\* registration which confirm-payment has already confirmed with the same order and
\* payment (both mails sent) changes no stored state and sends no mail.
C2_SecondConfirmIsNoOp ==
    [][/\ \A h \in BagToSet(inflight') :
            (/\ rev = "mem" /\ h.kind = "confirm-payment" /\ Begins(h)
             /\ inflight = EmptyBag
             /\ IsPaid(h.id)
             /\ registrations[h.id].transactionId = h.transactionId
             /\ registrations[h.id].orderId = h.orderId
             /\ ConfirmMailed(h.id, h.transactionId))
            => UNCHANGED <<stores, mailLog>>
       /\ \A h \in Suspended :
            (/\ rev = "fb" /\ h.kind = "confirm-payment" /\ Steps(h)
             /\ BagCardinality(inflight) = 1
             /\ h.data.paymentConfirmed
             /\ h.data.transactionId = h.transactionId
             /\ h.data.orderId = h.orderId
             /\ ConfirmMailed(h.id, h.transactionId))
            => UNCHANGED <<stores, mailLog>>]_vars

\* C3: a payment.captured / payment.authorized webhook delivered for an order whose
\* registration is already PAID sends no mail and leaves the stored transactionId
\* as it is.
C3_PaidWebhookIsNoOp ==
    [][/\ \A h \in BagToSet(inflight') :
            (/\ rev = "mem" /\ h.kind = "webhook" /\ Begins(h)
             /\ IsPaid(h.id))
            => /\ mailLog' = mailLog
               /\ registrations'[h.id].transactionId = registrations[h.id].transactionId
       /\ \A h \in Suspended :
            (/\ rev = "fb" /\ h.kind = "webhook" /\ h.transactionId # NULL /\ Steps(h)
             /\ h.data.paymentConfirmed)
            => /\ mailLog' = mailLog
               /\ Val(registrationsRef', h.id).transactionId
                     = Val(registrationsRef, h.id).transactionId]_vars

\* C4: a payment.failed webhook delivered for an order whose registration is already
\* PAID leaves the stored payment status of the registration as it is.
C4_FailedAfterPaidKeepsStatus ==
    [][/\ (/\ rev = "mem" /\ Arrival("webhook")
           /\ JsonParse(lastResp'.req.body).event = "payment.failed")
          => registrations' = registrations
       /\ \A h \in Suspended :
            (/\ rev = "fb" /\ h.kind = "webhook" /\ h.transactionId = NULL /\ Steps(h)
             /\ h.data.paymentConfirmed)
            => /\ Val(registrationsRef', h.id).paymentStatus
                     = Val(registrationsRef, h.id).paymentStatus
               /\ Val(usersRegistrationRef', h.id).paymentStatus
                     = Val(usersRegistrationRef, h.id).paymentStatus]_vars

\* the signature of a confirm-payment body is present and is not the HMAC of
\* orderId|paymentId under the key secret
WrongSignature(b) ==
    /\ b.razorpay_signature.alg # "none"
    /\ b.razorpay_signature # ValidSignature(b.razorpay_order_id, b.razorpay_payment_id)

\* the request passes the checks that come before the signature check
ReachesSignatureCheck(req) ==
    /\ ConfirmBody(req).razorpay_order_id # EMPTY
    /\ ConfirmBody(req).razorpay_payment_id # EMPTY
    /\ ConfirmId(req) # EMPTY /\ ConfirmId(req) # NULL

\* C5: a confirm-payment request with a wrong signature is refused, and the stores,
\* the confirmed payments and the mail log are unchanged; when it gets as far as the
\* signature check the answer is 400 "Invalid payment signature".
C5_WrongSignatureRejected ==
    [][(Arrival("confirm-payment") /\ WrongSignature(ConfirmBody(lastResp'.req)))
       => /\ lastResp'.status \in {400, 401}
          /\ inflight' = inflight
          /\ UNCHANGED <<stores, mailLog>>
          /\ ReachesSignatureCheck(lastResp'.req)
             => /\ lastResp'.status = 400
                /\ lastResp'.body.error = "Invalid payment signature"]_vars

\* a wrongly signed confirmation of the order of an unpaid registration was refused
C5_Witness ==
    /\ lastResp.kind = "confirm-payment" /\ lastResp.arrival
    /\ lastResp.body.error = "Invalid payment signature"
    /\ WrongSignature(ConfirmBody(lastResp.req))
    /\ LET id == ConfirmId(lastResp.req)
       IN /\ id \in DOMAIN Records
          /\ Records[id].orderId = ConfirmBody(lastResp.req).razorpay_order_id
          /\ ~Records[id].paymentConfirmed

\* the request carries the HMAC of its body under the configured webhook secret
Authentic(req) ==
    webhookSecret # NULL /\ req.signature = Hmac(webhookSecret, req.body)

\* C6: a webhook request that does not carry the HMAC of its body under the
\* configured webhook secret (no header, another signature, or no secret configured)
\* changes no store, sends no mail and starts no processing.
C6_UnauthenticatedWebhookNoEffect ==
    [][(Arrival("webhook") /\ ~Authentic(lastResp'.req))
       => /\ UNCHANGED <<stores, mailLog>>
          /\ inflight' = inflight]_vars

\* C7: a webhook request whose signature header is not the sender's HMAC of its body
\* is answered 401, changes no store, sends no mail and starts no processing.
C7_MismatchAnswered401 ==
    [][(/\ Arrival("webhook")
        /\ lastResp'.req.signature.alg # "none"
        /\ lastResp'.req.signature # Hmac(WEBHOOK_SECRET, lastResp'.req.body))
       => /\ lastResp'.status = 401
          /\ UNCHANGED <<stores, mailLog>>
          /\ inflight' = inflight]_vars

\* C8: every answer of the webhook handler other than the refusal of a signature is
\* 200 {success: true}.
C8_WebhookAlwaysAcknowledges ==
    (lastResp.kind = "webhook" /\ lastResp.status # 0 /\ lastResp.status # 401)
    => (lastResp.status = 200 /\ lastResp.body.success = "true")

\* the status of a registration record: PAID once its payment is confirmed, FAILED
\* when a failure is recorded, ORDER_CREATED when it has an order, else CREATED
StatusOf(reg) ==
    IF reg.paymentConfirmed THEN "PAID"
    ELSE IF rev = "fb" /\ reg.paymentStatus = "Failed" THEN "FAILED"
    ELSE IF reg.orderId # NULL THEN "ORDER_CREATED"
    ELSE "CREATED"

\* what the status query is to answer for id
ExpectedAnswer(id) ==
    IF id \notin DOMAIN Records THEN "UNKNOWN"
    ELSE IF StatusOf(Records[id]) = "PAID" THEN "PAID"
    ELSE IF StatusOf(Records[id]) = "FAILED" THEN "FAILED"
    ELSE "PENDING"

\* what an answer of the status query says
AnswerOf(body) ==
    IF body.success = "true" THEN "PAID"
    ELSE IF body.status = "Failed" THEN "FAILED"
    ELSE body.status

\* the id a check-payment step is about
CheckedId ==
    IF ~lastResp.arrival THEN lastResp.req.id
    ELSE IF rev = "mem" THEN lastResp.req.reference_id
    ELSE authenticateFirebase(lastResp.req.token)

\* C9: every answer the status query gives while no other call is in progress is
\* PAID, PENDING, FAILED or UNKNOWN as the status of the registration then is.
C9_StatusQueryFollowsStatus ==
    (lastResp.kind = "check-payment" /\ lastResp.status = 200 /\ inflight = EmptyBag)
    => AnswerOf(lastResp.body) = ExpectedAnswer(CheckedId)

\* C10: no step of a check-payment request changes the registrations, the confirmed
\* payments or the mail log.
C10_StatusQueryReadOnly ==
    [][lastResp'.kind = "check-payment" => UNCHANGED <<stores, mailLog>>]_vars

\* the status query answered success for a registration paid and mailed
C10_Witness ==
    /\ lastResp.kind = "check-payment" /\ lastResp.status = 200
    /\ lastResp.body.success = "true"
    /\ IsPaid(CheckedId)
    /\ Dispatches(CheckedId) >= 1


\* ---- C11 ----
\* A step that answers a registration with success.
Registered == lastResp'.kind = "register" /\ lastResp'.status = 200

\* C11: a successful registration returns a referenceId that no earlier
\* registration returned and leaves every stored record as it was; no step
\* removes a record or changes its contact fields.
C11_ReferenceIdUniqueAndStable ==
    [][ /\ Registered =>
            /\ lastResp'.body.data \notin DOMAIN registrations
            /\ \A id \in DOMAIN registrations : registrations'[id] = registrations[id]
        /\ \A id \in DOMAIN registrations :
            /\ id \in DOMAIN registrations'
            /\ registrations'[id].fullName = registrations[id].fullName
            /\ registrations'[id].email = registrations[id].email
            /\ registrations'[id].phone = registrations[id].phone ]_vars

\* ---- C12 ----
\* the registration a create-payment-order request is for: the referenceId of
\* the body, or the uid of the token (NULL when the token is invalid)
OrderTarget(req) ==
    IF rev = "mem" THEN req.referenceId ELSE authenticateFirebase(req.token)

\* C12: a create-payment-order request for a referenceId (or user) that has no
\* registration is answered 404 and changes no store and issues no order; and
\* no step of a create-payment-order handler serving an id without a
\* registration writes a store or issues an order.
C12_OrderForMissingRegistrationFails ==
    [][ /\ ( /\ Arrival("create-payment-order")
             /\ OrderTarget(lastResp'.req) \notin {NULL, EMPTY}
             /\ OrderTarget(lastResp'.req) \notin DOMAIN Records )
           => /\ lastResp'.status = 404
              /\ UNCHANGED <<stores, issuedOrders>>
        /\ \A h \in Suspended :
             ( /\ h.kind = "create-payment-order"
               /\ Steps(h)
               /\ h.id \notin DOMAIN Records )
             => UNCHANGED <<stores, issuedOrders>> ]_vars

\* ---- C13 ----
\* in this step no registration whose status is FAILED becomes PAID
FailedStaysUnpaid ==
    \A id \in DOMAIN Records :
        StatusOf(Records[id]) = "FAILED"
        => /\ id \in DOMAIN Records'
           /\ StatusOf(Records'[id]) # "PAID"

\* C13: PAID and FAILED are terminal: a registration whose status is FAILED is
\* never moved to PAID by a later step, and one whose status is PAID keeps that
\* status in every later step.
C13_PaidAndFailedTerminal ==
    [][ /\ FailedStaysUnpaid
        /\ \A id \in DOMAIN Records :
             StatusOf(Records[id]) = "PAID"
             => /\ id \in DOMAIN Records'
                /\ StatusOf(Records'[id]) = "PAID" ]_vars

\* ---- C14 ----
\* C14: a registration becomes PAID only from ORDER_CREATED: in every step, a
\* registration that is PAID afterwards and was not PAID before had an order
\* (status ORDER_CREATED) before the step.
C14_PaidOnlyFromOrderCreated ==
    [][ \A id \in DOMAIN Records' :
          ( /\ StatusOf(Records'[id]) = "PAID"
            /\ ~IsPaid(id) )
          => /\ id \in DOMAIN Records
             /\ StatusOf(Records[id]) = "ORDER_CREATED" ]_vars

\* ---- C15 ----
\* C15: in every state a registration has a transactionId exactly when it is
\* PAID (paymentConfirmed), and a registration stored with payment status
\* Failed has none.
C15_TransactionIdIffPaid ==
    \A id \in DOMAIN Records :
        /\ (Records[id].transactionId # NULL) <=> Records[id].paymentConfirmed
        /\ (rev = "fb" /\ Records[id].paymentStatus = "Failed")
           => Records[id].transactionId = NULL

\* the first half alone: transactionId and paymentConfirmed are written together
TransactionIdIffConfirmed ==
    \A id \in DOMAIN Records :
        (Records[id].transactionId # NULL) <=> Records[id].paymentConfirmed

\* ---- C16 ----
\* C16: an orderId stored on a registration never changes in a later step, and
\* no two registrations hold the same orderId.
C16_OrderIdImmutableAndUnique ==
    [][ /\ \A id \in DOMAIN Records :
             Records[id].orderId # NULL
             => /\ id \in DOMAIN Records'
                /\ Records'[id].orderId = Records[id].orderId
        /\ \A id1, id2 \in DOMAIN Records' :
             ( /\ id1 # id2
               /\ Records'[id1].orderId # NULL )
             => Records'[id1].orderId # Records'[id2].orderId ]_vars

\* ---- C17 ----
\* handler h of confirm-payment resumes from a mail that failed
MailFailedFor(h) ==
    /\ h.kind = "confirm-payment"
    /\ h.pc \in {"mail1", "mail2"}
    /\ ~h.ok
    /\ Steps(h)

\* C17: when a mail of a confirmation fails, the step in which the handler
\* resumes from it changes no store (the PAID mark and the transactionId stay
\* as written), and the caller is answered 200 with success; in the in-memory
\* revision the registration is then PAID with a transactionId.
C17_MailFailureSwallowed ==
    [][ \A h \in Suspended :
          MailFailedFor(h)
          => /\ UNCHANGED stores
             /\ lastResp' = Resp("confirm-payment", FALSE, h, 200,
                                 Body("true", NULL, NULL, h.id), FALSE)
             /\ rev = "mem"
                => /\ registrations'[h.id].paymentConfirmed
                   /\ registrations'[h.id].transactionId # NULL ]_vars

\* a confirm-payment handler has answered after a failed mail, and its
\* registration is PAID
C17_Witness ==
    /\ lastResp.kind = "confirm-payment"
    /\ ~lastResp.arrival
    /\ lastResp.status = 200
    /\ ~lastResp.req.ok
    /\ IsPaid(lastResp.req.id)

\* ---- C18 ----
\* the record of a registration in the unpaid initial state
UnpaidInitial(req) ==
    [fullName |-> req.fullName, email |-> req.email, phone |-> req.phone,
     paymentConfirmed |-> FALSE, orderId |-> NULL, transactionId |-> NULL]

GatewayFailedFor(h) ==
    /\ h.kind = "create-payment-order"
    /\ h.pc = "gateway"
    /\ Steps(h)
    /\ failures' # failures

\* the step in which a failed gateway call is handled: the handler answers 500
\* with an error, ends without another gateway call (no handler remains or is
\* added for it), issues no order and writes no store
GatewayFailureStepSurfaced ==
    [][ \A h \in Suspended :
          GatewayFailedFor(h)
          => /\ lastResp'.kind = "create-payment-order"
             /\ lastResp'.status = 500
             /\ lastResp'.body.error # NULL
             /\ lastResp'.body.success # "true"
             /\ inflight' = inflight (-) SetToBag({h})
             /\ UNCHANGED <<stores, issuedOrders>> ]_vars

\* C19: when the gateway call of a create-payment-order request fails, the
\* handler answers 500 with an error and ends without another gateway call,
\* no order is issued, the registration has no new orderId, and a registration
\* that was not stored when the request arrived is not stored afterwards.
C19_GatewayFailureLeavesState ==
    [][ \A h \in Suspended :
          GatewayFailedFor(h)
          => /\ lastResp'.status = 500
             /\ lastResp'.body.error # NULL
             /\ inflight' = inflight (-) SetToBag({h})
             /\ issuedOrders' = issuedOrders
             /\ h.id \in DOMAIN Records
                => Records'[h.id].orderId = Records[h.id].orderId
             /\ (rev = "fb" /\ h.data = EmptyNode)
                => h.id \notin DOMAIN registrationsRef' ]_vars

\* ---- C20 ----
\* C20: with the Razorpay client null, the gateway step of a create-payment-order
\* handler answers 500 with an error message, ends the handler, writes no store
\* and issues no order; no registration ever holds an orderId; and the server
\* goes on taking requests.
C20_NullClientAnswersError ==
    [][ /\ \A h \in Suspended :
             ( /\ rev = "fb" /\ razorpay = NULL
               /\ h.kind = "create-payment-order" /\ h.pc = "gateway"
               /\ Steps(h) )
             => /\ lastResp' = Resp("create-payment-order", FALSE, h, 500,
                                    Body("false", NullOrdersError, NULL, NULL), FALSE)
                /\ inflight' = inflight (-) SetToBag({h})
                /\ UNCHANGED <<stores, issuedOrders>>
        /\ (rev = "fb" /\ razorpay = NULL)
           => /\ issuedOrders' = {}
              /\ \A uid \in Uids :
                   /\ Val(registrationsRef', uid).orderId = NULL
                   /\ Val(usersRegistrationRef', uid).orderId = NULL
        /\ (rev = "fb" /\ razorpay = NULL /\ Arrival("create-payment-order")
            /\ authenticateFirebase(lastResp'.req.token) # NULL)
           => \E h \in BagToSet(inflight') : Begins(h) ]_vars

\* with the client null, a create-payment-order handler has written both basic
\* registrations, reached the gateway call and ended, and a status query that
\* came after it has been served
C20_Witness ==
    /\ rev = "fb" /\ razorpay = NULL
    /\ inflight = EmptyBag
    /\ \E uid \in DOMAIN usersRegistrationRef :
         usersRegistrationRef[uid].fullName = "Unknown"
    /\ lastResp.kind = "check-payment"
    /\ ~lastResp.arrival
    /\ lastResp.status = 200

\* ---- C21 ----
\* what the status query reads first: the confirmed payments
InConfirmed(id) ==
    IF rev = "mem" THEN id \in confirmedPayments ELSE id \in DOMAIN confirmedPaymentsRef

\* exactly three requests were accepted and all their external calls succeeded:
\* the registration of id, an order creation for it and a client confirmation
EndToEnd(id) ==
    /\ ops = 3 /\ failures = 0 /\ inflight = EmptyBag
    /\ id \in DOMAIN Records
    /\ Records[id].orderId # NULL
    /\ rev = "fb" => Records[id].fullName # "Unknown"
    /\ \E k \in 1..Len(mailLog) :
         mailLog[k].by = "confirm-payment" /\ mailLog[k].referenceId = id

\* when the confirmation of the end-to-end run is answered, the registration is
\* PAID with transactionId p, it is among the confirmed payments, and the mail
\* log holds the participant mail and the operator mail and nothing else
ConfirmedEndToEnd ==
    ( /\ lastResp.kind = "confirm-payment"
      /\ ~lastResp.arrival
      /\ EndToEnd(lastResp.req.id)
      /\ Records[lastResp.req.id].orderId = lastResp.req.orderId )
    => LET h == lastResp.req
       IN /\ lastResp.status = 200
          /\ lastResp.body.success = "true"
          /\ Records[h.id].paymentConfirmed
          /\ Records[h.id].transactionId = h.transactionId
          /\ InConfirmed(h.id)
          /\ mailLog = << Mail("participant", "confirm-payment", h.id,
                               h.transactionId, TRUE),
                          Mail("operator", "confirm-payment", h.id,
                               h.transactionId, TRUE) >>

\* the registration a status query asks about
QueryTarget(req) ==
    IF rev = "mem" THEN req.reference_id ELSE authenticateFirebase(req.token)

\* C21: after register, create-payment-order returning o and confirm-payment with
\* payment p and the signature over o|p, when the confirmation is answered the
\* registration is PAID with transactionId p and exactly two mails have been
\* sent, one to the participant and one to the operator; a status query that
\* arrives after that is answered PAID.
C21_EndToEndPaid ==
    [][ /\ ConfirmedEndToEnd'
        /\ ( /\ Arrival("check-payment")
             /\ QueryTarget(lastResp'.req) \notin {NULL, EMPTY}
             /\ EndToEnd(QueryTarget(lastResp'.req)) )
           => /\ lastResp'.status = 200
              /\ AnswerOf(lastResp'.body) = "PAID" ]_vars

\* the confirmation of the end-to-end run has been answered, and a status query
\* for the registration after it
C21_Witness ==
    /\ lastResp.kind = "check-payment"
    /\ lastResp.arrival
    /\ lastResp.status = 200
    /\ EndToEnd(QueryTarget(lastResp.req))
    /\ Records[QueryTarget(lastResp.req)].paymentConfirmed
    /\ Len(mailLog) = 2

\* ---- C22 ----
\* the registration a webhook body names by its order id (in-memory revision)
WebhookTarget(req) == FindReferenceId(JsonParse(req.body).order_id)

\* a step of the handling of a payment.failed webhook, or of a status query, does
\* what C22 says
FailedWebhookStep ==
    /\ ( /\ rev = "mem"
         /\ Arrival("webhook")
         /\ Authentic(lastResp'.req)
         /\ JsonParse(lastResp'.req.body).event = "payment.failed"
         /\ WebhookTarget(lastResp'.req) # NULL
         /\ StatusOf(registrations[WebhookTarget(lastResp'.req)]) = "ORDER_CREATED" )
       => StatusOf(registrations'[WebhookTarget(lastResp'.req)]) = "FAILED"
    /\ \A h \in Suspended :
         /\ ( /\ rev = "fb"
              /\ h.kind = "webhook" /\ h.pc = "failReg"
              /\ Steps(h)
              /\ lastResp'.status # 500
              /\ StatusOf(Val(registrationsRef, h.id)) = "ORDER_CREATED" )
            => /\ StatusOf(registrationsRef'[h.id]) = "FAILED"
               /\ registrationsRef'[h.id].paymentFailureReason # NULL
         /\ ( /\ rev = "fb"
              /\ h.kind = "check-payment" /\ h.pc = "readReg"
              /\ Steps(h)
              /\ lastResp'.status # 500
              /\ StatusOf(Val(registrationsRef, h.id)) = "FAILED" )
            => AnswerOf(lastResp'.body) = "FAILED"

\* C22: a payment.failed webhook, signed by the sender, for the orderId of a
\* registration that is ORDER_CREATED moves that registration to FAILED and
\* records a failure reason, and a status query answered from a registration
\* that is FAILED says FAILED.
C22_FailedWebhookMarksFailed == [][FailedWebhookStep]_vars

\* the same for the Firebase revision alone
FbFailedWebhookMarksFailed == [][rev = "fb" => FailedWebhookStep]_vars

\* ---- C23 ----
\* no stored registration holds this order id
NoMatch(orderId) == \A k \in DOMAIN Records : Records[k].orderId # orderId

\* the text the webhook handler computes its HMAC over
SignedText(raw) == IF rev = "mem" THEN JsonStringify(JsonParse(raw)) ELSE raw

\* a captured or authorized webhook that passes the signature check and names
\* an order no registration holds
UnmatchedCapture(req) ==
    /\ req.body.shape = "ok"
    /\ IsPaymentSuccess(JsonParse(req.body).event)
    /\ ~WebhookSignatureRejected(req.signature, SignedText(req.body))
    /\ NoMatch(JsonParse(req.body).order_id)

\* C23: a captured or authorized webhook whose orderId matches no registration
\* is answered 200 with success, starts no processing, and changes no
\* registration, no confirmed payment and no mail.
C23_UnmatchedWebhookNoEffect ==
    [][ (Arrival("webhook") /\ UnmatchedCapture(lastResp'.req))
        => /\ lastResp'.status = 200
           /\ lastResp'.body.success = "true"
           /\ inflight' = inflight
           /\ UNCHANGED <<stores, mailLog>> ]_vars

\* such a webhook has been acknowledged while a registration with another
\* order is stored
C23_Witness ==
    /\ lastResp.kind = "webhook"
    /\ lastResp.arrival
    /\ lastResp.status = 200
    /\ UnmatchedCapture(lastResp.req)
    /\ \E k \in DOMAIN Records : Records[k].orderId # NULL

\* ---- C24 ----
\* the contact fields of a registration record
Contact(reg) == <<reg.fullName, reg.email, reg.phone>>

\* C24: no step changes the fullName, email or phone of a stored registration.
C24_ContactImmutable ==
    [][ \A id \in DOMAIN Records :
          /\ id \in DOMAIN Records'
          /\ Contact(Records'[id]) = Contact(Records[id]) ]_vars

\* ---- C25 ----
\* the payment fields of a registration record
PaymentState(reg) ==
    IF rev = "mem" THEN <<reg.orderId, reg.paymentConfirmed, reg.transactionId>>
    ELSE <<reg.orderId, reg.orderStatus, reg.paymentConfirmed, reg.transactionId,
           reg.paymentStatus, reg.paymentFailureReason>>

\* the step belongs to a request of one of these routes
StepOf(kinds) ==
    \/ lastResp'.arrival /\ lastResp'.kind \in kinds
    \/ \E h \in Suspended : Steps(h) /\ h.kind \in kinds

\* no confirmation or failure has been written on the registration yet
Unsettled(reg) ==
    /\ ~reg.paymentConfirmed
    /\ rev = "fb" => reg.paymentStatus = NULL

\* C25: no step removes a stored registration, and a step that changes the
\* payment fields of a stored registration is a step of order creation, or a
\* step of a client confirmation or a webhook on a registration that no
\* confirmation or failure has been written on before.
C25_NoRemovalOneSettlement ==
    [][ /\ DOMAIN registrations \subseteq DOMAIN registrations'
        /\ DOMAIN registrationsRef \subseteq DOMAIN registrationsRef'
        /\ DOMAIN usersRegistrationRef \subseteq DOMAIN usersRegistrationRef'
        /\ \A id \in DOMAIN Records \cap DOMAIN Records' :
             PaymentState(Records'[id]) # PaymentState(Records[id])
             => \/ StepOf({"create-payment-order"})
                \/ /\ StepOf({"confirm-payment", "webhook"})
                   /\ Unsettled(Records[id]) ]_vars

\* the first half alone, for the stores keyed by registration id
RegisteredIdsOnlyGrow ==
    [][ /\ DOMAIN registrations \subseteq DOMAIN registrations'
        /\ DOMAIN registrationsRef \subseteq DOMAIN registrationsRef' ]_vars

\* ---- C26 ----
\* a step takes in a request and answers it at once, or takes it in and suspends
\* one handler for it, or runs a suspended handler to its next await without an
\* answer, or lets a suspended handler answer and end
AnswersOnce ==
    \/ /\ lastResp'.arrival /\ lastResp'.status # 0
       /\ inflight' = inflight
    \/ /\ lastResp'.arrival /\ lastResp'.status = 0
       /\ \E h \in BagToSet(inflight') : inflight' = inflight (+) SetToBag({h})
    \/ /\ lastResp' = NoResp
       /\ \E h \in Suspended, g \in BagToSet(inflight') :
            inflight' = (inflight (-) SetToBag({h})) (+) SetToBag({g})
    \/ /\ ~lastResp'.arrival /\ lastResp'.status # 0
       /\ lastResp'.req \in Suspended
       /\ inflight' = inflight (-) SetToBag({lastResp'.req})

\* C26: every request gets exactly one response: a step answers exactly the
\* requests whose handling ends in it, and no handler stays suspended for ever
\* when the external calls return or fail.
C26_EveryRequestAnsweredOnce ==
    /\ [][AnswersOnce]_vars
    /\ []<>(inflight = EmptyBag)


\* a handler that was suspended at an external call that failed has answered,
\* and no handler is left suspended
C26_Witness ==
    /\ failures > 0
    /\ ~lastResp.arrival
    /\ lastResp.status = 500
    /\ lastResp.req.pc \in DbAwaits
    /\ inflight = EmptyBag


\* ---- C27 ----
\* C27: a webhook whose signature header is the sender's HMAC of the raw body as
\* received, whatever the body's formatting, is not refused for its signature.
C27_SignedRawBodyAccepted ==
    (lastResp.kind = "webhook" /\ lastResp.arrival /\ Authentic(lastResp.req))
        => lastResp.status # 401

\* the Firebase revision verifies the raw body and accepts every formatting
FbSignedRawBodyAccepted ==
    rev = "fb" => C27_SignedRawBodyAccepted


\* ---- C28 ----
\* C28: comparing the generated digest with a supplied signature of the same
\* length that does not match takes the same work wherever the first differing
\* character is.
C28_ComparisonConstantTime ==
    (/\ compared.done1 # NotCompared /\ compared.done2 # NotCompared
     /\ Len(compared.first) = DigestLen /\ Len(compared.second) = DigestLen
     /\ ~compared.done1.result /\ ~compared.done2.result)
        => compared.done1.work = compared.done2.work


\* ---- C29 ----
\* the request lacks one of the payment details the handler requires
ConfirmIncomplete(req) ==
    LET b == ConfirmBody(req)
    IN \/ b.razorpay_payment_id = EMPTY
       \/ b.razorpay_order_id = EMPTY
       \/ b.razorpay_signature.alg = "none"
       \/ rev = "mem" /\ b.referenceId = EMPTY

\* the request has passed the authentication middleware, where there is one
PassedAuthentication(req) == rev = "fb" => authenticateFirebase(req.token) # NULL

NotFoundError == IF rev = "mem" THEN "Invalid reference ID"
                 ELSE "User registration data not found"

\* C29: confirm-payment answers 400 for incomplete payment details; otherwise the
\* invalid-signature error for a wrong signature, whether or not the registration
\* exists; otherwise the not-found error for an unknown registration; and none of
\* the three writes a store, sends a mail or starts any processing.
C29_ConfirmChecksInOrder ==
    [][(Arrival("confirm-payment") /\ PassedAuthentication(lastResp'.req))
       => LET req == lastResp'.req
              b == ConfirmBody(req)
              incomplete == ConfirmIncomplete(req)
              badSignature ==
                  ~verifyRazorpaySignature(b.razorpay_order_id, b.razorpay_payment_id,
                                           b.razorpay_signature)
              unknown == ConfirmId(req) \notin DOMAIN Records
          IN /\ incomplete
                => /\ lastResp'.status = 400
                   /\ lastResp'.body.error = "Payment details are incomplete"
             /\ (~incomplete /\ badSignature)
                => /\ lastResp'.status = 400
                   /\ lastResp'.body.error = "Invalid payment signature"
             /\ (~incomplete /\ ~badSignature /\ unknown)
                => /\ lastResp'.status = 404
                   /\ lastResp'.body.error = NotFoundError
             /\ (incomplete \/ badSignature \/ unknown)
                => /\ UNCHANGED <<stores, mailLog>>
                   /\ inflight' = inflight]_vars

\* a complete request with a wrong signature for a registration that does not
\* exist, while another does, has been answered with the invalid-signature error
C29_Witness ==
    /\ lastResp.kind = "confirm-payment" /\ lastResp.arrival
    /\ PassedAuthentication(lastResp.req)
    /\ ~ConfirmIncomplete(lastResp.req)
    /\ WrongSignature(ConfirmBody(lastResp.req))
    /\ ConfirmId(lastResp.req) \notin DOMAIN Records
    /\ DOMAIN Records # {}
    /\ lastResp.status = 400
    /\ lastResp.body.error = "Invalid payment signature"


\* ---- C30 ----
\* C30: confirm-payment marks a registration PAID only when the order id of the
\* request is the order id stored on that registration.
C30_ConfirmOnlyOwnOrder ==
    [][ /\ (rev = "mem" /\ Arrival("confirm-payment") /\ lastResp'.status = 0)
           => registrations[lastResp'.req.referenceId].orderId
                 = lastResp'.req.razorpay_order_id
        /\ \A h \in Suspended :
             (/\ rev = "fb" /\ h.kind = "confirm-payment" /\ h.pc = "updReg"
              /\ Steps(h) /\ registrationsRef' # registrationsRef)
             => Val(registrationsRef, h.id).orderId = h.orderId ]_vars

\* a registration has been marked PAID by a confirmation that carries the order
\* of another registration
PaidByAnothersOrder ==
    \E id1, id2 \in DOMAIN Records :
        /\ id1 # id2
        /\ Records[id1].orderId # NULL
        /\ Records[id2].orderId # Records[id1].orderId
        /\ IsPaid(id2)
        /\ \E h \in Suspended :
             /\ h.kind = "confirm-payment" /\ h.id = id2
             /\ h.orderId = Records[id1].orderId

\* ---- C31 ----
\* every order the gateway has issued has been returned to a client: no call
\* failed and no create-payment-order handler is still on its way
AllIssuedReturned ==
    /\ failures = 0
    /\ \A h \in Suspended : h.kind # "create-payment-order"

\* C31: a payment.captured webhook that passes the signature check and carries an
\* order id that create-payment-order has returned to a client finds a
\* registration holding that order and marks it PAID (in-memory revision) or
\* starts marking it (Firebase revision).
C31_IssuedOrderResolvable ==
    [][ ( /\ Arrival("webhook")
          /\ lastResp'.req.body.shape = "ok"
          /\ lastResp'.req.body.event = "payment.captured"
          /\ ~WebhookSignatureRejected(lastResp'.req.signature,
                                        SignedText(lastResp'.req.body))
          /\ lastResp'.req.body.order_id \in issuedOrders
          /\ AllIssuedReturned )
        => \E id \in DOMAIN Records :
              /\ Records[id].orderId = lastResp'.req.body.order_id
              /\ IF rev = "mem" THEN registrations'[id].paymentConfirmed
                 ELSE \E h \in BagToSet(inflight') :
                         h.kind = "webhook" /\ h.id = id ]_vars


\* ---- C32 ----
\* C32: in the in-memory revision every id in confirmedPayments is a registered
\* id, and an id is in confirmedPayments exactly when its registration has
\* paymentConfirmed true.
C32_ConfirmedPaymentsMatchRegistrations ==
    rev = "mem"
    => /\ confirmedPayments \subseteq DOMAIN registrations
       /\ \A id \in DOMAIN registrations :
            id \in confirmedPayments <=> registrations[id].paymentConfirmed


\* ---- C33 ----
\* C33: the paid answer of the status query is stable: an id the query answers
\* success for stays among the confirmed payments in every step, whatever the
\* step is, and a query arriving for such an id is answered success.
C33_PaidAnswerStable ==
    [][ /\ \A id \in RefIds \cup Uids : InConfirmed(id) => InConfirmed(id)'
        /\ ( /\ Arrival("check-payment")
             /\ QueryTarget(lastResp'.req) \notin {NULL, EMPTY}
             /\ InConfirmed(QueryTarget(lastResp'.req)) )
           => /\ lastResp'.status = 200
              /\ lastResp'.body.success = "true" ]_vars

\* a query has been answered success for a user whose registration was written
\* again, or deleted, after the payment was confirmed
C33_Witness ==
    /\ rev = "fb"
    /\ lastResp.kind = "check-payment" /\ lastResp.arrival
    /\ lastResp.status = 200 /\ lastResp.body.success = "true"
    /\ LET uid == QueryTarget(lastResp.req)
       IN \/ uid \notin DOMAIN usersRegistrationRef
          \/ ~Val(registrationsRef, uid).paymentConfirmed


\* ---- C34 ----
\* the payment fields of a stored registration node
PaymentFields(node) ==
    <<node.paymentConfirmed, node.transactionId, node.paymentStatus, node.orderId>>

\* both copies are the basic registration that create-payment-order made: no
\* POST /api/user/registrations has written either
OnlyPaymentRoutesWrote(uid) ==
    /\ uid \in DOMAIN registrationsRef \cap DOMAIN usersRegistrationRef
    /\ registrationsRef[uid].fullName = "Unknown"
    /\ usersRegistrationRef[uid].fullName = "Unknown"

\* C34: in the Firebase revision with the gateway client initialised, whenever
\* no handler is in flight and no external call has failed, the two copies of a registration that only
\* create-payment-order, confirm-payment and the webhooks have written agree on
\* paymentConfirmed, transactionId, paymentStatus and orderId.
C34_CopiesAgreeAtRest ==
    (rev = "fb" /\ razorpay = RAZORPAY_CLIENT /\ inflight = EmptyBag /\ failures = 0)
    => \A uid \in Uids :
          OnlyPaymentRoutesWrote(uid)
          => PaymentFields(registrationsRef[uid]) = PaymentFields(usersRegistrationRef[uid])


\* ---- C35 ----
\* C35: in the Firebase revision a step of POST /api/user/registrations, taken
\* while no other handler is in flight, for a user whose payment is recorded
\* (confirmedPayments/{uid} exists and registrations/{uid} is paid) leaves
\* paymentConfirmed true and keeps its transactionId and orderId.
C35_RegistrationKeepsPayment ==
    [][ \A h \in Suspended :
          ( /\ rev = "fb"
            /\ h.kind = "registrations" /\ Steps(h)
            /\ inflight = SetToBag({h})
            /\ h.id \in DOMAIN confirmedPaymentsRef
            /\ h.id \in DOMAIN registrationsRef
            /\ registrationsRef[h.id].paymentConfirmed )
          => /\ h.id \in DOMAIN registrationsRef'
             /\ registrationsRef'[h.id].paymentConfirmed
             /\ registrationsRef'[h.id].transactionId = registrationsRef[h.id].transactionId
             /\ registrationsRef'[h.id].orderId = registrationsRef[h.id].orderId ]_vars


\* ---- C36 ----
\* C36: sendConfirmationEmails sends the participant mail first and the operator
\* mail only after the participant mail succeeded; when it is over it has
\* returned true or false, never thrown; true exactly when both sends succeeded;
\* and after a participant mail that failed the operator mail was not attempted.
C36_MailsInOrderNeverThrows ==
    /\ mailer.attempts \in {<<>>, <<"participant">>, <<"participant", "operator">>}
    /\ Len(mailer.attempts) = 2 => mailer.ok1
    /\ mailer.pc = "done"
       => /\ mailer.outcome \in {"true", "false"}
          /\ mailer.outcome = "true" <=> (mailer.ok1 /\ mailer.ok2)
          /\ ~mailer.ok1 => Len(mailer.attempts) = 1

\* for a registration whose phone is a string the function does what C36 says
MailsInOrderForStringPhone ==
    mailer.userData.phone.type = "string" => C36_MailsInOrderNeverThrows


\* ---- C37 ----
AdminKinds == {"admin-registrations", "admin-users", "admin-toggle", "admin-delete",
               "admin-create"}

\* the bearer token is the ID token of an account that holds the admin claim
HoldsAdminClaim(token) ==
    /\ token \in DOMAIN authUsers
    /\ authUsers[token].admin

\* the accounts that hold the admin claim after the step and did not before it
GainedAdminClaim ==
    {u \in DOMAIN authUsers' :
        /\ authUsers'[u].admin
        /\ ~(u \in DOMAIN authUsers /\ authUsers[u].admin)}

\* C37: a request to an admin route without a valid bearer token is answered
\* 401, one with the token of an account without the admin claim is answered
\* 403, and neither changes the accounts, the database or the handlers in
\* flight; a handler of an admin route begins only for a caller that holds the
\* admin claim, and a handler of /api/setup-admin only for the correct setup
\* token; the accounts and the users/{uid} nodes change only in a step of such a
\* handler; and an account gains the admin claim only in a step of a create-user
\* handler that was asked for an admin, or of a setup-admin handler, for that
\* account.
C37_AdminRoutesGated ==
    [][ /\ \A kind \in AdminKinds :
             Arrival(kind) =>
               LET token == lastResp'.req.token
               IN /\ token \in {"none", "invalid"} => lastResp'.status = 401
                  /\ (token \in DOMAIN authUsers /\ ~authUsers[token].admin)
                        => lastResp'.status = 403
                  /\ ~HoldsAdminClaim(token)
                        => /\ lastResp'.final
                           /\ lastResp'.status \in {401, 403, 500}
                           /\ UNCHANGED <<adminVars, stores, inflight>>
        /\ (Arrival("setup-admin") /\ lastResp'.req.setupToken # SETUP_TOKEN)
              => /\ lastResp'.final
                 /\ lastResp'.status = 403
                 /\ UNCHANGED <<adminVars, stores, inflight>>
        /\ \A h \in BagToSet(inflight') :
             Begins(h) =>
               /\ h.kind \in AdminKinds => HoldsAdminClaim(h.data.caller)
               /\ h.kind = "setup-admin" => lastResp'.req.setupToken = SETUP_TOKEN
        /\ adminVars' # adminVars
              => \E h \in Suspended :
                    Steps(h) /\ h.kind \in AdminKinds \cup {"setup-admin"}
        /\ \A u \in GainedAdminClaim :
             \E h \in Suspended :
                /\ Steps(h)
                /\ h.id = u
                /\ \/ h.kind = "admin-create" /\ h.data.flag
                   \/ h.kind = "setup-admin" ]_vars

\* a caller without the admin claim has just been answered 403 while an account
\* that an admin created as an admin holds the claim
C37_Witness ==
    /\ lastResp.arrival
    /\ lastResp.kind \in AdminKinds
    /\ lastResp.status = 403
    /\ lastResp.req.token = "u1"
    /\ "n1" \in DOMAIN authUsers
    /\ authUsers["n1"].admin
    /\ ~authUsers["u1"].admin

====
